---- MODULE Spec2Model ----
(***************************************************************************)
(* Forex lot-size calculator: the price/pips synchronisation of App.tsx    *)
(* (React state cells, event handlers and effects) and the calculation     *)
(* engine calculateLotSize of services/forexCalculatorService.             *)
(*                                                                         *)
(* Numbers are JavaScript numbers modelled as exact rationals n/d plus the *)
(* IEEE specials NaN and +/-Infinity; binary rounding error is not         *)
(* modelled.  Strings are sequences of one-character strings.              *)
(***************************************************************************)
EXTENDS Integers, Sequences, FiniteSets, Bags, TLC

(* the inputs and the result of a function under study *)
VARIABLES
    calcIn,                         \* inputs of the function (engine runs)
    calcOut                         \* what it returned

----------------------------------------------------------------------------
(* JavaScript values *)

RECURSIVE GCD(_, _)
GCD(a, b) == IF b = 0 THEN a ELSE GCD(b, a % b)

IAbs(i) == IF i < 0 THEN -i ELSE i

\* the rational n/d (d > 0) in lowest terms
R(n, d) ==
    LET g == GCD(IAbs(n), d)
    IN  [t |-> "num", n |-> n \div g, d |-> d \div g]

Empty == [t |-> "empty", n |-> 0, d |-> 1]      \* ''
Undefined == [t |-> "undefined", n |-> 0, d |-> 1]
Null == [t |-> "null", n |-> 0, d |-> 1]
NaN == [t |-> "nan", n |-> 0, d |-> 1]
Infinity == [t |-> "inf", n |-> 1, d |-> 1]
NegInfinity == [t |-> "inf", n |-> -1, d |-> 1]
Zero == R(0, 1)

\* typeof x === 'number'
IsNumber(x) == x.t \in {"num", "nan", "inf"}

IsNaN(x) == x.t = "nan"

Sign(x) == IF x.n > 0 THEN 1 ELSE IF x.n < 0 THEN -1 ELSE 0

Neg(x) == IF x.t = "nan" THEN NaN ELSE [x EXCEPT !.n = -x.n]

JAbs(x) == IF x.t = "nan" THEN NaN ELSE [x EXCEPT !.n = IAbs(x.n)]

JAdd(a, b) ==
    IF a.t = "nan" \/ b.t = "nan" THEN NaN
    ELSE IF a.t = "inf" /\ b.t = "inf" THEN (IF a.n = b.n THEN a ELSE NaN)
    ELSE IF a.t = "inf" THEN a
    ELSE IF b.t = "inf" THEN b
    ELSE LET g == GCD(a.d, b.d)
         IN  R(a.n * (b.d \div g) + b.n * (a.d \div g), (a.d \div g) * b.d)

JSub(a, b) == JAdd(a, Neg(b))

JMul(a, b) ==
    IF a.t = "nan" \/ b.t = "nan" THEN NaN
    ELSE IF a.t = "inf" \/ b.t = "inf"
         THEN (IF Sign(a) * Sign(b) = 0 THEN NaN
               ELSE [t |-> "inf", n |-> Sign(a) * Sign(b), d |-> 1])
    ELSE LET g1 == GCD(IAbs(a.n), b.d)
             g2 == GCD(IAbs(b.n), a.d)
         IN  R((a.n \div g1) * (b.n \div g2), (a.d \div g2) * (b.d \div g1))

\* IEEE division: x/0 is +/-Infinity, 0/0 and Infinity/Infinity are NaN
JDiv(a, b) ==
    IF a.t = "nan" \/ b.t = "nan" THEN NaN
    ELSE IF a.t = "inf" /\ b.t = "inf" THEN NaN
    ELSE IF a.t = "inf"
         THEN [t |-> "inf", n |-> (IF b.n < 0 THEN -a.n ELSE a.n), d |-> 1]
    ELSE IF b.t = "inf" THEN Zero
    ELSE IF b.n = 0
         THEN (IF a.n = 0 THEN NaN ELSE [t |-> "inf", n |-> Sign(a), d |-> 1])
    ELSE JMul(a, IF b.n < 0 THEN R(-b.d, -b.n) ELSE R(b.d, b.n))

\* a < b, a <= b, a > b, a >= b on numbers: every comparison with NaN is false
JLt(a, b) ==
    /\ a.t # "nan" /\ b.t # "nan"
    /\ a # b
    /\ LET diff == JSub(a, b) IN diff.t # "nan" /\ diff.n < 0

JLe(a, b) == a.t # "nan" /\ b.t # "nan" /\ (a = b \/ JLt(a, b))

JGt(a, b) == JLt(b, a)

JGe(a, b) == JLe(b, a)

\* Math.max(a, b)
MathMax(a, b) ==
    IF a.t = "nan" \/ b.t = "nan" THEN NaN ELSE IF JLt(a, b) THEN b ELSE a

\* parseFloat(x.toFixed(2)): the nearest multiple of 0.01, ties away from zero
ToFixed2(x) ==
    IF x.t # "num" THEN x
    ELSE LET m == IAbs(x.n)
             q == (200 * m + x.d) \div (2 * x.d)
         IN  R(Sign(x) * q, 100)

----------------------------------------------------------------------------
(* JavaScript strings, as sequences of characters *)

UpperChars == <<"A","B","C","D","E","F","G","H","I","J","K","L","M",
                "N","O","P","Q","R","S","T","U","V","W","X","Y","Z">>
LowerChars == <<"a","b","c","d","e","f","g","h","i","j","k","l","m",
                "n","o","p","q","r","s","t","u","v","w","x","y","z">>

ToLowerChar(c) ==
    IF \E i \in 1..26 : UpperChars[i] = c
    THEN LowerChars[CHOOSE i \in 1..26 : UpperChars[i] = c] ELSE c

ToUpperChar(c) ==
    IF \E i \in 1..26 : LowerChars[i] = c
    THEN UpperChars[CHOOSE i \in 1..26 : LowerChars[i] = c] ELSE c

ToLowerCase(s) == [i \in 1..Len(s) |-> ToLowerChar(s[i])]

ToUpperCase(s) == [i \in 1..Len(s) |-> ToUpperChar(s[i])]

\* s.includes(sub)
Includes(s, sub) ==
    \E i \in 0..(Len(s) - Len(sub)) : SubSeq(s, i + 1, i + Len(sub)) = sub

\* s.split(sep)
RECURSIVE Split(_, _)
Split(s, sep) ==
    IF \A i \in 1..Len(s) : s[i] # sep THEN <<s>>
    ELSE LET k == CHOOSE i \in 1..Len(s) :
                      s[i] = sep /\ \A j \in 1..(i - 1) : s[j] # sep
         IN  <<SubSeq(s, 1, k - 1)>> \o Split(SubSeq(s, k + 1, Len(s)), sep)

XAU == <<"X","A","U">>
XAG == <<"X","A","G">>
NAS100 == <<"N","A","S","1","0","0">>
US30 == <<"U","S","3","0">>
BTC == <<"B","T","C">>
ETH == <<"E","T","H">>
USD == <<"U","S","D">>
USDT == <<"U","S","D","T">>

----------------------------------------------------------------------------
(* constants.ts *)

Pair(symbol, base, quote, contractSize) ==
    [symbol |-> symbol, base |-> base, quote |-> quote,
     contractSize |-> R(contractSize, 1)]

MOCK_EXCHANGE_RATES ==
    { <<<<"U","S","D">>, R(1, 1)>>,
      <<<<"U","S","D","T">>, R(1, 1)>>,
      <<<<"E","U","R">>, R(27, 25)>>,
      <<<<"G","B","P">>, R(127, 100)>>,
      <<<<"J","P","Y">>, R(4, 625)>>,
      <<<<"I","N","R">>, R(3, 250)>>,
      <<<<"A","U","D">>, R(33, 50)>>,
      <<<<"N","Z","D">>, R(61, 100)>>,
      <<<<"C","A","D">>, R(73, 100)>>,
      <<<<"C","H","F">>, R(111, 100)>> }

MOCK_MARKET_PRICES ==
    { <<<<"E","U","R","/","U","S","D">>, R(107, 100)>>,
      <<<<"G","B","P","/","U","S","D">>, R(5, 4)>>,
      <<<<"U","S","D","/","J","P","Y">>, R(156, 1)>>,
      <<<<"U","S","D","/","C","H","F">>, R(91, 100)>>,
      <<<<"A","U","D","/","U","S","D">>, R(133, 200)>>,
      <<<<"U","S","D","/","C","A","D">>, R(273, 200)>>,
      <<<<"N","Z","D","/","U","S","D">>, R(123, 200)>>,
      <<<<"E","U","R","/","G","B","P">>, R(17, 20)>>,
      <<<<"E","U","R","/","J","P","Y">>, R(168, 1)>>,
      <<<<"G","B","P","/","J","P","Y">>, R(195, 1)>>,
      <<<<"A","U","D","/","J","P","Y">>, R(104, 1)>>,
      <<<<"C","H","F","/","J","P","Y">>, R(343, 2)>>,
      <<<<"E","U","R","/","C","A","D">>, R(37, 25)>>,
      <<<<"G","B","P","/","C","A","D">>, R(171, 100)>>,
      <<<<"A","U","D","/","C","A","D">>, R(9, 10)>>,
      <<<<"A","U","D","/","C","H","F">>, R(3, 5)>>,
      <<<<"A","U","D","/","N","Z","D">>, R(217, 200)>>,
      <<<<"E","U","R","A","U","D">>, R(161, 100)>>,
      <<<<"E","U","R","N","Z","D">>, R(7, 4)>>,
      <<<<"G","B","P","A","U","D">>, R(191, 100)>>,
      <<<<"G","B","P","C","A","D">>, R(69, 40)>>,
      <<<<"G","B","P","C","H","F">>, R(113, 100)>>,
      <<<<"G","B","P","N","Z","D">>, R(52, 25)>>,
      <<<<"N","Z","D","C","A","D">>, R(167, 200)>>,
      <<<<"N","Z","D","J","P","Y">>, R(191, 2)>>,
      <<<<"N","Z","D","C","H","F">>, R(11, 20)>>,
      <<<<"C","A","D","J","P","Y">>, R(114, 1)>>,
      <<<<"C","H","F","J","P","Y">>, R(343, 2)>>,
      <<<<"E","U","R","C","H","F">>, R(49, 50)>>,
      <<<<"C","A","D","C","H","F">>, R(133, 200)>>,
      <<<<"X","A","U","/","U","S","D">>, R(2350, 1)>>,
      <<<<"X","A","G","/","U","S","D">>, R(30, 1)>>,
      <<<<"X","C","U","/","U","S","D">>, R(9, 2)>>,
      <<<<"N","A","S","1","0","0","/","U","S","D">>, R(18800, 1)>>,
      <<<<"U","S","3","0","/","U","S","D">>, R(39000, 1)>>,
      <<<<"B","T","C","/","U","S","D","T">>, R(68000, 1)>>,
      <<<<"E","T","H","/","U","S","D">>, R(3500, 1)>> }

ALL_CURRENCY_PAIRS ==
    << Pair(<<"E","U","R","/","U","S","D">>, <<"E","U","R">>, <<"U","S","D">>, 100000),
       Pair(<<"G","B","P","/","U","S","D">>, <<"G","B","P">>, <<"U","S","D">>, 100000),
       Pair(<<"U","S","D","/","J","P","Y">>, <<"U","S","D">>, <<"J","P","Y">>, 100000),
       Pair(<<"U","S","D","/","C","H","F">>, <<"U","S","D">>, <<"C","H","F">>, 100000),
       Pair(<<"A","U","D","/","U","S","D">>, <<"A","U","D">>, <<"U","S","D">>, 100000),
       Pair(<<"U","S","D","/","C","A","D">>, <<"U","S","D">>, <<"C","A","D">>, 100000),
       Pair(<<"N","Z","D","/","U","S","D">>, <<"N","Z","D">>, <<"U","S","D">>, 100000),
       Pair(<<"E","U","R","/","G","B","P">>, <<"E","U","R">>, <<"G","B","P">>, 100000),
       Pair(<<"E","U","R","/","J","P","Y">>, <<"E","U","R">>, <<"J","P","Y">>, 100000),
       Pair(<<"G","B","P","/","J","P","Y">>, <<"G","B","P">>, <<"J","P","Y">>, 100000),
       Pair(<<"A","U","D","/","J","P","Y">>, <<"A","U","D">>, <<"J","P","Y">>, 100000),
       Pair(<<"C","H","F","/","J","P","Y">>, <<"C","H","F">>, <<"J","P","Y">>, 100000),
       Pair(<<"E","U","R","/","C","A","D">>, <<"E","U","R">>, <<"C","A","D">>, 100000),
       Pair(<<"G","B","P","/","C","A","D">>, <<"G","B","P">>, <<"C","A","D">>, 100000),
       Pair(<<"A","U","D","/","C","A","D">>, <<"A","U","D">>, <<"C","A","D">>, 100000),
       Pair(<<"A","U","D","/","C","H","F">>, <<"A","U","D">>, <<"C","H","F">>, 100000),
       Pair(<<"A","U","D","/","N","Z","D">>, <<"A","U","D">>, <<"N","Z","D">>, 100000),
       Pair(<<"E","U","R","A","U","D">>, <<"E","U","R">>, <<"A","U","D">>, 100000),
       Pair(<<"E","U","R","N","Z","D">>, <<"E","U","R">>, <<"N","Z","D">>, 100000),
       Pair(<<"G","B","P","A","U","D">>, <<"G","B","P">>, <<"A","U","D">>, 100000),
       Pair(<<"G","B","P","C","A","D">>, <<"G","B","P">>, <<"C","A","D">>, 100000),
       Pair(<<"G","B","P","C","H","F">>, <<"G","B","P">>, <<"C","H","F">>, 100000),
       Pair(<<"G","B","P","N","Z","D">>, <<"G","B","P">>, <<"N","Z","D">>, 100000),
       Pair(<<"N","Z","D","C","A","D">>, <<"N","Z","D">>, <<"C","A","D">>, 100000),
       Pair(<<"N","Z","D","J","P","Y">>, <<"N","Z","D">>, <<"J","P","Y">>, 100000),
       Pair(<<"N","Z","D","C","H","F">>, <<"N","Z","D">>, <<"C","H","F">>, 100000),
       Pair(<<"C","A","D","J","P","Y">>, <<"C","A","D">>, <<"J","P","Y">>, 100000),
       Pair(<<"C","H","F","J","P","Y">>, <<"C","H","F">>, <<"J","P","Y">>, 100000),
       Pair(<<"E","U","R","C","H","F">>, <<"E","U","R">>, <<"C","H","F">>, 100000),
       Pair(<<"C","A","D","C","H","F">>, <<"C","A","D">>, <<"C","H","F">>, 100000),
       Pair(<<"X","A","U","/","U","S","D">>, <<"X","A","U">>, <<"U","S","D">>, 100),
       Pair(<<"X","A","G","/","U","S","D">>, <<"X","A","G">>, <<"U","S","D">>, 5000),
       Pair(<<"X","C","U","/","U","S","D">>, <<"X","C","U">>, <<"U","S","D">>, 25000),
       Pair(<<"N","A","S","1","0","0","/","U","S","D">>, <<"N","A","S","1","0","0">>, <<"U","S","D">>, 20),
       Pair(<<"U","S","3","0","/","U","S","D">>, <<"U","S","3","0">>, <<"U","S","D">>, 10),
       Pair(<<"B","T","C","/","U","S","D","T">>, <<"B","T","C">>, <<"U","S","D","T">>, 1),
       Pair(<<"E","T","H","/","U","S","D">>, <<"E","T","H">>, <<"U","S","D">>, 1) >>

\* mutant: the markers are matched without regard to case
getPairPipMultiplier_IgnoresCase(symbol) ==
    IF Includes(ToUpperCase(symbol), XAU) \/ Includes(ToUpperCase(symbol), XAG)
       \/ Includes(ToUpperCase(symbol), NAS100)
       \/ Includes(ToUpperCase(symbol), US30)
    THEN R(10, 100)
    ELSE R(1, 10000)

\* getPairPipMultiplier(symbol)
getPairPipMultiplier(symbol) ==
    IF Includes(symbol, XAU) \/ Includes(symbol, XAG)
       \/ Includes(symbol, NAS100) \/ Includes(symbol, US30)
    THEN R(10, 100)
    ELSE R(1, 10000)

AccountCurrencies == { USD, <<"I","N","R">>, <<"G","B","P">>, <<"E","U","R">> }

LEVERAGE_OPTIONS ==
    { <<"1",":","3","0">>, <<"1",":","5","0">>, <<"1",":","1","0","0">>,
      <<"1",":","2","0","0">>, <<"1",":","5","0","0">>,
      <<"1",":","1","0","0","0">> }

----------------------------------------------------------------------------
(* services/forexCalculatorService *)

\* mutant: a currency that is not in the table has the rate 0
getExchangeRateToUSD_MissingIsZero(currency) ==
    IF \E e \in MOCK_EXCHANGE_RATES : e[1] = currency
    THEN (CHOOSE e \in MOCK_EXCHANGE_RATES : e[1] = currency)[2]
    ELSE Zero

\* getExchangeRateToUSD(currency): a missing (or zero) rate is taken as 1.0
getExchangeRateToUSD(currency) ==
    IF \E e \in MOCK_EXCHANGE_RATES : e[1] = currency /\ e[2] # Zero
    THEN (CHOOSE e \in MOCK_EXCHANGE_RATES : e[1] = currency)[2]
    ELSE R(1, 1)

\* convertCurrency(amount, fromCurrency, toCurrency)
convertCurrency(amount, fromCurrency, toCurrency) ==
    IF fromCurrency = toCurrency THEN amount
    ELSE JDiv(JMul(amount, getExchangeRateToUSD(fromCurrency)),
              getExchangeRateToUSD(toCurrency))

\* mutant: the distance keeps the sign of price1 - price2
calculatePipsDistance_Signed(price1, price2, pair) ==
    JDiv(JSub(price1, price2), getPairPipMultiplier(pair.symbol))

\* calculatePipsDistance(price1, price2, currencyPair)
calculatePipsDistance(price1, price2, pair) ==
    LET pipMultiplier == getPairPipMultiplier(pair.symbol)
    IN  IF pipMultiplier = Zero THEN Zero
        ELSE JDiv(JAbs(JSub(price1, price2)), pipMultiplier)

\* calculatePipValue(currencyPair, accountCurrency)
calculatePipValue(pair, accountCurrency) ==
    LET pipMultiplier == getPairPipMultiplier(pair.symbol)
        pipValueInQuoteCurrency == JMul(pipMultiplier, pair.contractSize)
    IN  convertCurrency(pipValueInQuoteCurrency, pair.quote, accountCurrency)

Digits == <<"0","1","2","3","4","5","6","7","8","9">>

DigitValue(c) == (CHOOSE i \in 1..10 : Digits[i] = c) - 1

RECURSIVE ParseDigits(_)
ParseDigits(s) ==
    IF s = <<>> THEN 0
    ELSE 10 * ParseDigits(SubSeq(s, 1, Len(s) - 1)) + DigitValue(s[Len(s)])

\* parseFloat(s) of an unsigned decimal integer; NaN when s has no leading digit
ParseFloat(s) ==
    LET IsDigit(c) == \E i \in 1..10 : Digits[i] = c
        k == IF \A i \in 1..Len(s) : IsDigit(s[i]) THEN Len(s)
             ELSE (CHOOSE i \in 1..Len(s) :
                      ~IsDigit(s[i]) /\ \A j \in 1..(i - 1) : IsDigit(s[j])) - 1
    IN  IF k = 0 THEN NaN ELSE R(ParseDigits(SubSeq(s, 1, k)), 1)

\* mutant: the base currency is looked at before the quote currency
calculateMarginRequired_BaseFirst(lotSize, leverage, pair, entryPrice, accountCurrency) ==
    LET leverageRatio == ParseFloat(Split(leverage, ":")[2])
        totalPositionValueInUSD ==
            IF pair.base = USD \/ pair.base = USDT
            THEN JMul(lotSize, pair.contractSize)
            ELSE IF pair.quote = USD \/ pair.quote = USDT
            THEN JMul(JMul(lotSize, pair.contractSize), entryPrice)
            ELSE JMul(JMul(lotSize, pair.contractSize),
                      getExchangeRateToUSD(pair.base))
        marginInUSD == JDiv(totalPositionValueInUSD, leverageRatio)
    IN  IF leverageRatio = Zero THEN Infinity
        ELSE convertCurrency(marginInUSD, USD, accountCurrency)

\* calculateMarginRequired(lotSize, leverage, currencyPair, entryPrice, accountCurrency)
calculateMarginRequired(lotSize, leverage, pair, entryPrice, accountCurrency) ==
    LET leverageRatio == ParseFloat(Split(leverage, ":")[2])
        totalPositionValueInUSD ==
            IF pair.quote = USD \/ pair.quote = USDT
            THEN JMul(JMul(lotSize, pair.contractSize), entryPrice)
            ELSE IF pair.base = USD \/ pair.base = USDT
            THEN JMul(lotSize, pair.contractSize)
            ELSE JMul(JMul(lotSize, pair.contractSize),
                      getExchangeRateToUSD(pair.base))
        marginInUSD == JDiv(totalPositionValueInUSD, leverageRatio)
    IN  IF leverageRatio = Zero THEN Infinity
        ELSE convertCurrency(marginInUSD, USD, accountCurrency)

\* the result returned for invalid inputs and for a zero stop-loss distance
ZeroResult(totalRiskAmount, effectiveRiskPercentage) ==
    [finalLotSize |-> Zero, totalRiskAmount |-> totalRiskAmount,
     riskPerPip |-> Zero, stopLossPips |-> Zero, takeProfitPips |-> Null,
     potentialProfitAtTP |-> Null, marginRequired |-> Zero,
     riskToRewardRatio |-> Null, lotSizeCategory |-> "micro",
     effectiveRiskPercentage |-> effectiveRiskPercentage]

\* isNaN(x) ? dflt : x, where isNaN(null) is false
NaNTo(x, dflt) == IF IsNaN(x) THEN dflt ELSE x

\* x || 0
OrZero(x) == IF x.t \in {"null", "nan", "undefined", "empty"} THEN Zero ELSE x

\* mutant: the validation accepts zeros (< instead of <=)
InputsInvalid_Strict(inputs) ==
    \/ JLt(inputs.accountSize, Zero)
    \/ JLt(inputs.riskValue, Zero)
    \/ JLt(inputs.entryPrice, Zero)
    \/ JLt(inputs.stopLossPrice, Zero)

\* calculateLotSize: the validation of the inputs
InputsInvalid(inputs) ==
    \/ JLe(inputs.accountSize, Zero)
    \/ JLe(inputs.riskValue, Zero)
    \/ JLe(inputs.entryPrice, Zero)
    \/ JLe(inputs.stopLossPrice, Zero)

\* calculateLotSize, step 1: total risk amount in account currency
TotalRiskAmount(inputs) ==
    IF inputs.riskType = "percentage"
    THEN JDiv(JMul(inputs.accountSize, inputs.riskValue), R(100, 1))
    ELSE inputs.riskValue

\* calculateLotSize, step 2: stop-loss distance in pips
StopLossPips(inputs) ==
    calculatePipsDistance(inputs.entryPrice, inputs.stopLossPrice,
                          inputs.currencyPair)

\* mutant: the zero-distance result forgets the computed risk
ZeroDistanceResult_AllZero(inputs) == ZeroResult(Zero, Zero)

\* calculateLotSize: the result returned when the stop-loss distance is 0
ZeroDistanceResult(inputs) ==
    ZeroResult(TotalRiskAmount(inputs),
               JMul(JDiv(TotalRiskAmount(inputs), inputs.accountSize),
                    R(100, 1)))

\* mutant: no minimum lot size
FinalLotSize_NoFloor(recommendedLotSize) == ToFixed2(recommendedLotSize)

\* mutant: the lot size is cut to two decimals instead of rounded
FinalLotSize_Truncates(recommendedLotSize) ==
    MathMax(R(1, 100),
            IF recommendedLotSize.t # "num" THEN recommendedLotSize
            ELSE R((100 * recommendedLotSize.n) \div recommendedLotSize.d, 100))

\* calculateLotSize, step 4: the recommended lot size, rounded and floored
FinalLotSize(recommendedLotSize) ==
    MathMax(R(1, 100), ToFixed2(recommendedLotSize))

\* mutant: the result carries the requested risk
ReturnedRiskAmount_Requested(totalRiskAmount, actualRiskAmount) ==
    NaNTo(totalRiskAmount, Zero)

\* calculateLotSize: the totalRiskAmount field of the full result
ReturnedRiskAmount(totalRiskAmount, actualRiskAmount) ==
    NaNTo(actualRiskAmount, Zero)

\* mutant: the percentage is taken from the requested risk amount
EffectiveRiskPercentage_Requested(totalRiskAmount, actualRiskAmount, accountSize) ==
    JMul(JDiv(totalRiskAmount, accountSize), R(100, 1))

\* calculateLotSize: (actualRiskAmount / accountSize) * 100
EffectiveRiskPercentage(totalRiskAmount, actualRiskAmount, accountSize) ==
    JMul(JDiv(actualRiskAmount, accountSize), R(100, 1))

\* mutant: a lot size of exactly 0.1 is still micro
LotSizeCategory_MiniAbove(finalLotSize) ==
    IF JGe(finalLotSize, R(1, 1)) THEN "standard"
    ELSE IF JGt(finalLotSize, R(1, 10)) THEN "mini"
    ELSE "micro"

\* calculateLotSize: the lot size category
LotSizeCategory(finalLotSize) ==
    IF JGe(finalLotSize, R(1, 1)) THEN "standard"
    ELSE IF JGe(finalLotSize, R(1, 10)) THEN "mini"
    ELSE "micro"

\* mutant: a cache that hands back the last result computed, whatever the
\* inputs
calculateLotSize_StaleCache(inputs) ==
    IF "other" \in DOMAIN calcOut THEN calcOut.other
    ELSE ZeroResult(TotalRiskAmount(inputs), Zero)

\* calculateLotSize(inputs)
calculateLotSize(inputs) ==
    LET accountSize == inputs.accountSize
        entryPrice == inputs.entryPrice
        takeProfitPrice == inputs.takeProfitPrice
        pair == inputs.currencyPair
        totalRiskAmount == TotalRiskAmount(inputs)
        stopLossPips == StopLossPips(inputs)
        pipValuePerStandardLot == calculatePipValue(pair, inputs.accountCurrency)
        recommendedLotSize ==
            JDiv(totalRiskAmount, JMul(stopLossPips, pipValuePerStandardLot))
        finalLotSize == FinalLotSize(recommendedLotSize)
        actualRiskAmount ==
            JMul(JMul(finalLotSize, stopLossPips), pipValuePerStandardLot)
        effectiveRiskPercentage ==
            EffectiveRiskPercentage(totalRiskAmount, actualRiskAmount,
                                    accountSize)
        riskPerPip == JMul(finalLotSize, pipValuePerStandardLot)
        hasTP == IsNumber(takeProfitPrice) /\ JGt(takeProfitPrice, Zero)
        takeProfitPips ==
            IF hasTP THEN calculatePipsDistance(entryPrice, takeProfitPrice, pair)
            ELSE Null
        potentialProfitAtTP ==
            IF hasTP
            THEN JMul(JMul(finalLotSize, OrZero(takeProfitPips)),
                      pipValuePerStandardLot)
            ELSE Null
        riskToRewardRatio ==
            IF hasTP /\ JGt(stopLossPips, Zero)
            THEN JDiv(OrZero(takeProfitPips), stopLossPips)
            ELSE Null
        marginRequired ==
            calculateMarginRequired(finalLotSize, inputs.leverage, pair,
                                    entryPrice, inputs.accountCurrency)
        lotSizeCategory == LotSizeCategory(finalLotSize)
    IN  IF InputsInvalid(inputs) THEN ZeroResult(Zero, Zero)
        ELSE IF stopLossPips = Zero THEN ZeroDistanceResult(inputs)
        ELSE [finalLotSize |-> NaNTo(finalLotSize, Zero),
              totalRiskAmount |->
                  ReturnedRiskAmount(totalRiskAmount, actualRiskAmount),
              riskPerPip |-> NaNTo(riskPerPip, Zero),
              stopLossPips |-> NaNTo(stopLossPips, Zero),
              takeProfitPips |-> NaNTo(takeProfitPips, Null),
              potentialProfitAtTP |-> NaNTo(potentialProfitAtTP, Null),
              marginRequired |-> NaNTo(marginRequired, Zero),
              riskToRewardRatio |-> NaNTo(riskToRewardRatio, Null),
              lotSizeCategory |-> lotSizeCategory,
              effectiveRiskPercentage |-> NaNTo(effectiveRiskPercentage, Zero)]

\* fetchMarketPrice(symbol): the reference price of the symbol, or undefined
fetchMarketPrice(symbol) ==
    IF \E e \in MOCK_MARKET_PRICES : e[1] = symbol
    THEN (CHOOSE e \in MOCK_MARKET_PRICES : e[1] = symbol)[2]
    ELSE Undefined

----------------------------------------------------------------------------
(* App.tsx: conversion helpers *)

\* mutant: the distance keeps the sign of entry - target
getPipsFromPrices_Signed(entry, target, pair) ==
    LET multiplier == getPairPipMultiplier(pair.symbol)
    IN  IF ~IsNumber(entry) \/ JLe(entry, Zero)
           \/ ~IsNumber(target) \/ JLe(target, Zero) \/ multiplier = Zero
        THEN Empty
        ELSE JDiv(JSub(entry, target), multiplier)

\* getPipsFromPrices(entry, target, pair)
getPipsFromPrices(entry, target, pair) ==
    LET multiplier == getPairPipMultiplier(pair.symbol)
    IN  IF ~IsNumber(entry) \/ JLe(entry, Zero)
           \/ ~IsNumber(target) \/ JLe(target, Zero) \/ multiplier = Zero
        THEN Empty
        ELSE JDiv(JAbs(JSub(entry, target)), multiplier)

\* mutant: a computed price of 0 is returned as a price
getPriceFromPips_ZeroPrice(entry, pips, pair, type, isSL) ==
    LET multiplier == getPairPipMultiplier(pair.symbol)
        priceChange == JMul(pips, multiplier)
        calculatedPrice ==
            IF (type = "buy") = isSL
            THEN JSub(entry, priceChange) ELSE JAdd(entry, priceChange)
    IN  IF ~IsNumber(entry) \/ JLe(entry, Zero)
           \/ ~IsNumber(pips) \/ JLt(pips, Zero) \/ multiplier = Zero
        THEN Empty
        ELSE IF JGe(calculatedPrice, Zero) THEN calculatedPrice ELSE Empty

\* mutant: a sell trade is priced like a buy trade
getPriceFromPips_SellLikeBuy(entry, pips, pair, type, isSL) ==
    LET multiplier == getPairPipMultiplier(pair.symbol)
        priceChange == JMul(pips, multiplier)
        calculatedPrice ==
            IF isSL THEN JSub(entry, priceChange) ELSE JAdd(entry, priceChange)
    IN  IF ~IsNumber(entry) \/ JLe(entry, Zero)
           \/ ~IsNumber(pips) \/ JLt(pips, Zero) \/ multiplier = Zero
        THEN Empty
        ELSE IF JGt(calculatedPrice, Zero) THEN calculatedPrice ELSE Empty

\* getPriceFromPips(entry, pips, pair, type, isSL)
getPriceFromPips(entry, pips, pair, type, isSL) ==
    LET multiplier == getPairPipMultiplier(pair.symbol)
        priceChange == JMul(pips, multiplier)
        calculatedPrice ==
            IF type = "buy"
            THEN (IF isSL THEN JSub(entry, priceChange)
                  ELSE JAdd(entry, priceChange))
            ELSE (IF isSL THEN JAdd(entry, priceChange)
                  ELSE JSub(entry, priceChange))
    IN  IF ~IsNumber(entry) \/ JLe(entry, Zero)
           \/ ~IsNumber(pips) \/ JLt(pips, Zero) \/ multiplier = Zero
        THEN Empty
        ELSE IF JGt(calculatedPrice, Zero) THEN calculatedPrice ELSE Empty

----------------------------------------------------------------------------
(* App.tsx: the component's state cells *)

VARIABLES
    accountSize,                    \* number | ''
    riskValue,                      \* number | ''
    currencyPairInputSymbol,        \* text of the currency pair input
    currencyPair,                   \* CurrencyPair object derived from it
    tradeType,                      \* "buy" | "sell"
    entryPrice,                     \* number | ''
    stopLossPriceInput,
    stopLossPipsInput,
    effectiveStopLossPriceForCalc,
    lastEditedSLField,              \* "price" | "pips" | "null"
    takeProfitPriceInput,
    takeProfitPipsInput,
    effectiveTakeProfitPriceForCalc,
    lastEditedTPField,
    results,                        \* CalculationResults | null
    history,                        \* HistoryEntry[], newest first
    hasCalculated,
    calcError,                      \* "null" or the kind of the error message
    storage,                        \* localStorage item forexCalculatorHistory
    clock,                          \* Date.now(), counted in calculations
    mounted,                        \* the first render's effects have run
    rendered,                       \* dependency values of the last render
                                    \* whose effects have run
    inflight,                       \* bag of symbols with a pending fetchPrice
    passes,                         \* renders since the last event
    evt,                            \* the last event handled
    pre                             \* the state cells when it was handled

cells == <<accountSize, riskValue,
           currencyPairInputSymbol, currencyPair, tradeType, entryPrice,
           stopLossPriceInput, stopLossPipsInput,
           effectiveStopLossPriceForCalc, lastEditedSLField,
           takeProfitPriceInput, takeProfitPipsInput,
           effectiveTakeProfitPriceForCalc, lastEditedTPField,
           results, history, hasCalculated, calcError>>

env == <<storage, clock>>

react == <<mounted, rendered, inflight, passes, evt, pre>>

calc == <<calcIn, calcOut>>

vars == <<cells, env, react, calc>>

\* the state cells as one record: what a render closes over
S ==
    [accountSize |-> accountSize,
     riskValue |-> riskValue,
     results |-> results,
     history |-> history,
     currencyPairInputSymbol |-> currencyPairInputSymbol,
     currencyPair |-> currencyPair,
     tradeType |-> tradeType,
     entryPrice |-> entryPrice,
     stopLossPriceInput |-> stopLossPriceInput,
     stopLossPipsInput |-> stopLossPipsInput,
     effectiveStopLossPriceForCalc |-> effectiveStopLossPriceForCalc,
     lastEditedSLField |-> lastEditedSLField,
     takeProfitPriceInput |-> takeProfitPriceInput,
     takeProfitPipsInput |-> takeProfitPipsInput,
     effectiveTakeProfitPriceForCalc |-> effectiveTakeProfitPriceForCalc,
     lastEditedTPField |-> lastEditedTPField,
     hasCalculated |-> hasCalculated,
     calcError |-> calcError]

\* the queued set-state calls u applied to the cells s: the last call wins
Commit(s, u) ==
    LET new == u @@ s
    IN  /\ accountSize' = new.accountSize
        /\ riskValue' = new.riskValue
        /\ results' = new.results
        /\ history' = new.history
        /\ currencyPairInputSymbol' = new.currencyPairInputSymbol
        /\ currencyPair' = new.currencyPair
        /\ tradeType' = new.tradeType
        /\ entryPrice' = new.entryPrice
        /\ stopLossPriceInput' = new.stopLossPriceInput
        /\ stopLossPipsInput' = new.stopLossPipsInput
        /\ effectiveStopLossPriceForCalc' = new.effectiveStopLossPriceForCalc
        /\ lastEditedSLField' = new.lastEditedSLField
        /\ takeProfitPriceInput' = new.takeProfitPriceInput
        /\ takeProfitPipsInput' = new.takeProfitPipsInput
        /\ effectiveTakeProfitPriceForCalc' = new.effectiveTakeProfitPriceForCalc
        /\ lastEditedTPField' = new.lastEditedTPField
        /\ hasCalculated' = new.hasCalculated
        /\ calcError' = new.calcError

NoUpdate == [x \in {} |-> Null]

\* the dependency arrays of the effects
Deps(s) ==
    [history |-> s.history,
     currencyPairInputSymbol |-> s.currencyPairInputSymbol,
     currencyPair |-> s.currencyPair,
     tradeType |-> s.tradeType,
     entryPrice |-> s.entryPrice,
     stopLossPriceInput |-> s.stopLossPriceInput,
     stopLossPipsInput |-> s.stopLossPipsInput,
     lastEditedSLField |-> s.lastEditedSLField,
     takeProfitPriceInput |-> s.takeProfitPriceInput,
     takeProfitPipsInput |-> s.takeProfitPipsInput,
     lastEditedTPField |-> s.lastEditedTPField]

\* localStorage.getItem: nothing stored, a stored text that parses to a list
\* of entries, a stored text that JSON.parse rejects although `entries` can
\* still be read in it
NoItem == [t |-> "absent", v |-> <<>>]

StoredList(entries) == [t |-> "json", v |-> entries]

CorruptItem(entries) == [t |-> "corrupt", v |-> entries]

\* JSON.stringify of a number: NaN and Infinity are written as null
JsonNumber(x) == IF x.t \in {"nan", "inf"} THEN Null ELSE x

\* JSON.parse(JSON.stringify(entry))
JsonEntry(entry) ==
    [id |-> entry.id,
     inputs |-> [f \in DOMAIN entry.inputs |->
                    IF f \in {"accountSize", "riskValue", "entryPrice",
                              "stopLossPriceInput", "stopLossPipsInput",
                              "takeProfitPriceInput", "takeProfitPipsInput"}
                    THEN JsonNumber(entry.inputs[f]) ELSE entry.inputs[f]],
     results |-> IF entry.results = Null THEN Null
                 ELSE [f \in DOMAIN entry.results |->
                          IF f = "lotSizeCategory" THEN entry.results[f]
                          ELSE JsonNumber(entry.results[f])]]

\* mutant: the stored history is not read
LoadHistoryEffect_Ignores(item) == NoUpdate

\* mutant: the entries readable in a corrupted text are recovered
LoadHistoryEffect_Partial(item) ==
    IF item.t = "absent" THEN NoUpdate ELSE [history |-> item.v]

\* effect []: load the history from localStorage on mount
LoadHistoryEffect(item) ==
    IF item.t = "json" THEN [history |-> item.v] ELSE NoUpdate

\* effect [], catch: a stored text that does not parse is removed
StorageAfterLoad(item) == IF item.t = "corrupt" THEN NoItem ELSE item

\* effect [history]: localStorage.setItem(key, JSON.stringify(history))
SaveHistoryEffect(s) ==
    StoredList([i \in 1..Len(s.history) |-> JsonEntry(s.history[i])])

EmptyPair == Pair(<<>>, <<>>, <<>>, 0)

\* ALL_CURRENCY_PAIRS.find(p => p.symbol.toLowerCase() === symbol.toLowerCase())
MatchedPairs(symbol) ==
    { i \in 1..Len(ALL_CURRENCY_PAIRS) :
        ToLowerCase(ALL_CURRENCY_PAIRS[i].symbol) = ToLowerCase(symbol) }

\* the pair synthesized for a symbol that is not in the catalog
CustomPair(symbol) ==
    LET parts == Split(symbol, "/")
        base == IF Len(parts) = 2 THEN parts[1] ELSE symbol
        quote == IF Len(parts) = 2 THEN parts[2] ELSE <<>>
        assumedContractSize ==
            IF Includes(base, XAU) \/ Includes(base, XAG) THEN 100
            ELSE IF Includes(base, BTC) \/ Includes(base, ETH) THEN 1
            ELSE IF Includes(base, NAS100) \/ Includes(base, US30) THEN 10
            ELSE 100000
    IN  Pair(symbol, ToUpperCase(base), ToUpperCase(quote), assumedContractSize)

ClearSL ==
    [stopLossPriceInput |-> Empty, stopLossPipsInput |-> Empty,
     effectiveStopLossPriceForCalc |-> Empty, lastEditedSLField |-> "null"]

ClearTP ==
    [takeProfitPriceInput |-> Empty, takeProfitPipsInput |-> Empty,
     effectiveTakeProfitPriceForCalc |-> Empty, lastEditedTPField |-> "null"]

\* mutant: the reset forgets setEntryPrice('')
InstrumentEffect_KeepsEntry(s) ==
    LET symbol == s.currencyPairInputSymbol
        m == MatchedPairs(symbol)
    IN  IF symbol = <<>> THEN [currencyPair |-> EmptyPair]
        ELSE [currencyPair |->
                 IF m # {}
                 THEN ALL_CURRENCY_PAIRS[CHOOSE i \in m : \A j \in m : i <= j]
                 ELSE CustomPair(symbol),
              hasCalculated |-> FALSE,
              calcError |-> "null"] @@ ClearSL @@ ClearTP

\* effect [currencyPairInputSymbol]: derive currencyPair, reset the form
InstrumentEffect(s) ==
    LET symbol == s.currencyPairInputSymbol
        m == MatchedPairs(symbol)
    IN  IF symbol = <<>> THEN [currencyPair |-> EmptyPair]
        ELSE [currencyPair |->
                 IF m # {}
                 THEN ALL_CURRENCY_PAIRS[CHOOSE i \in m : \A j \in m : i <= j]
                 ELSE CustomPair(symbol),
              entryPrice |-> Empty,
              hasCalculated |-> FALSE,
              calcError |-> "null"] @@ ClearSL @@ ClearTP

\* effect [currencyPair]: start fetchPrice, or clear the entry price
StartsFetch(s) == s.currencyPair.symbol # <<>>

AutoFillEffect(s) ==
    IF StartsFetch(s) THEN NoUpdate ELSE [entryPrice |-> Empty]

EntryUsable(s) ==
    /\ IsNumber(s.entryPrice) /\ ~JLe(s.entryPrice, Zero)
    /\ s.currencyPair.symbol # <<>>

\* mutant: the price branch also rewrites the anchored price, one pip step
\* further each run
ResyncSL_MovesAnchor(s) ==
    IF /\ s.lastEditedSLField = "price"
       /\ IsNumber(s.stopLossPriceInput) /\ JGt(s.stopLossPriceInput, Zero)
    THEN [stopLossPriceInput |->
              JAdd(s.stopLossPriceInput, getPairPipMultiplier(s.currencyPair.symbol)),
          stopLossPipsInput |->
              getPipsFromPrices(s.entryPrice, s.stopLossPriceInput, s.currencyPair),
          effectiveStopLossPriceForCalc |-> s.stopLossPriceInput]
    ELSE IF /\ s.lastEditedSLField = "pips"
            /\ IsNumber(s.stopLossPipsInput) /\ JGe(s.stopLossPipsInput, Zero)
    THEN LET derivedPrice ==
                 getPriceFromPips(s.entryPrice, s.stopLossPipsInput,
                                  s.currencyPair, s.tradeType, TRUE)
         IN  [stopLossPriceInput |-> derivedPrice,
              effectiveStopLossPriceForCalc |-> derivedPrice]
    ELSE ClearSL

\* mutant: the pips branch forgets setEffectiveStopLossPriceForCalc
ResyncSL_StaleEffective(s) ==
    IF /\ s.lastEditedSLField = "price"
       /\ IsNumber(s.stopLossPriceInput) /\ JGt(s.stopLossPriceInput, Zero)
    THEN [stopLossPipsInput |->
              getPipsFromPrices(s.entryPrice, s.stopLossPriceInput, s.currencyPair),
          effectiveStopLossPriceForCalc |-> s.stopLossPriceInput]
    ELSE IF /\ s.lastEditedSLField = "pips"
            /\ IsNumber(s.stopLossPipsInput) /\ JGe(s.stopLossPipsInput, Zero)
    THEN [stopLossPriceInput |->
              getPriceFromPips(s.entryPrice, s.stopLossPipsInput,
                               s.currencyPair, s.tradeType, TRUE)]
    ELSE ClearSL

ResyncSL(s) ==
    IF /\ s.lastEditedSLField = "price"
       /\ IsNumber(s.stopLossPriceInput) /\ JGt(s.stopLossPriceInput, Zero)
    THEN [stopLossPipsInput |->
              getPipsFromPrices(s.entryPrice, s.stopLossPriceInput, s.currencyPair),
          effectiveStopLossPriceForCalc |-> s.stopLossPriceInput]
    ELSE IF /\ s.lastEditedSLField = "pips"
            /\ IsNumber(s.stopLossPipsInput) /\ JGe(s.stopLossPipsInput, Zero)
    THEN LET derivedPrice ==
                 getPriceFromPips(s.entryPrice, s.stopLossPipsInput,
                                  s.currencyPair, s.tradeType, TRUE)
         IN  [stopLossPriceInput |-> derivedPrice,
              effectiveStopLossPriceForCalc |-> derivedPrice]
    ELSE ClearSL

\* mutant: the pips branch derives the price as for a buy trade
ResyncTP_DirectionBlind(s) ==
    IF /\ s.lastEditedTPField = "price"
       /\ IsNumber(s.takeProfitPriceInput) /\ JGt(s.takeProfitPriceInput, Zero)
    THEN [takeProfitPipsInput |->
              getPipsFromPrices(s.entryPrice, s.takeProfitPriceInput, s.currencyPair),
          effectiveTakeProfitPriceForCalc |-> s.takeProfitPriceInput]
    ELSE IF /\ s.lastEditedTPField = "pips"
            /\ IsNumber(s.takeProfitPipsInput) /\ JGe(s.takeProfitPipsInput, Zero)
    THEN LET derivedPrice ==
                 getPriceFromPips(s.entryPrice, s.takeProfitPipsInput,
                                  s.currencyPair, "buy", FALSE)
         IN  [takeProfitPriceInput |-> derivedPrice,
              effectiveTakeProfitPriceForCalc |-> derivedPrice]
    ELSE ClearTP

ResyncTP(s) ==
    IF /\ s.lastEditedTPField = "price"
       /\ IsNumber(s.takeProfitPriceInput) /\ JGt(s.takeProfitPriceInput, Zero)
    THEN [takeProfitPipsInput |->
              getPipsFromPrices(s.entryPrice, s.takeProfitPriceInput, s.currencyPair),
          effectiveTakeProfitPriceForCalc |-> s.takeProfitPriceInput]
    ELSE IF /\ s.lastEditedTPField = "pips"
            /\ IsNumber(s.takeProfitPipsInput) /\ JGe(s.takeProfitPipsInput, Zero)
    THEN LET derivedPrice ==
                 getPriceFromPips(s.entryPrice, s.takeProfitPipsInput,
                                  s.currencyPair, s.tradeType, FALSE)
         IN  [takeProfitPriceInput |-> derivedPrice,
              effectiveTakeProfitPriceForCalc |-> derivedPrice]
    ELSE ClearTP

\* mutant: the sides are resynced whatever the entry price is
ResyncEffect_NoEntryCheck(s) == ResyncSL(s) @@ ResyncTP(s)

\* effect [entryPrice, currencyPair, tradeType, the SL/TP inputs and anchors]
ResyncEffect(s) ==
    IF ~EntryUsable(s) THEN ClearSL @@ ClearTP
    ELSE ResyncSL(s) @@ ResyncTP(s)

----------------------------------------------------------------------------
(* bounds of the model and the values typed into the form *)

\* lookups that may be pending at once
MaxInFlight == 2

\* calculations that add a history entry in one run
MaxCalculations == 1

EURUSD == <<"E","U","R","/","U","S","D">>
XAUUSD == <<"X","A","U","/","U","S","D">>

\* currency pair texts: catalog symbols, a catalog symbol in lower case,
\* the cleared input, a symbol that is not in the catalog
SymbolInputs ==
    { EURUSD, <<"e","u","r","/","u","s","d">>, XAUUSD, <<>>,
      <<"x","a","u","/","e","u","r">> }

EntryInputs == { Empty, Zero, R(2, 1) }

\* stop-loss price and pips
PriceInputs == { Empty, Zero, R(213, 200) }

PipsInputs == { Empty, R(-1, 1), Zero, R(50, 1), R(30000, 1) }

\* take-profit price and pips
TPPriceInputs == { Empty, R(27, 25) }

TPPipsInputs == { Empty, R(100, 1) }

----------------------------------------------------------------------------
(* App.tsx: event handlers *)

Touched == [hasCalculated |-> FALSE, calcError |-> "null"]

\* mutant: a price edit forgets setLastEditedSLField
updateSLValues_AnchorNotSet(s, editedField, value) ==
    IF ~EntryUsable(s) THEN ClearSL
    ELSE IF editedField = "price"
    THEN [stopLossPriceInput |-> value,
          effectiveStopLossPriceForCalc |-> value,
          stopLossPipsInput |->
              IF value # Empty
              THEN getPipsFromPrices(s.entryPrice, value, s.currencyPair)
              ELSE Empty]
    ELSE LET derivedPrice ==
                 IF value # Empty
                 THEN getPriceFromPips(s.entryPrice, value, s.currencyPair,
                                       s.tradeType, TRUE)
                 ELSE Empty
         IN  [lastEditedSLField |-> "pips",
              stopLossPipsInput |-> value,
              stopLossPriceInput |-> derivedPrice,
              effectiveStopLossPriceForCalc |-> derivedPrice]

\* mutant: a stop-loss edit also resets the take-profit side
updateSLValues_ClearsTP(s, editedField, value) ==
    IF ~EntryUsable(s) THEN ClearSL
    ELSE IF editedField = "price"
    THEN [lastEditedSLField |-> "price",
          stopLossPriceInput |-> value,
          effectiveStopLossPriceForCalc |-> value,
          stopLossPipsInput |->
              IF value # Empty
              THEN getPipsFromPrices(s.entryPrice, value, s.currencyPair)
              ELSE Empty] @@ ClearTP
    ELSE LET derivedPrice ==
                 IF value # Empty
                 THEN getPriceFromPips(s.entryPrice, value, s.currencyPair,
                                       s.tradeType, TRUE)
                 ELSE Empty
         IN  [lastEditedSLField |-> "pips",
              stopLossPipsInput |-> value,
              stopLossPriceInput |-> derivedPrice,
              effectiveStopLossPriceForCalc |-> derivedPrice] @@ ClearTP

\* updateSLValues(editedField, value)
updateSLValues(s, editedField, value) ==
    IF ~EntryUsable(s) THEN ClearSL
    ELSE IF editedField = "price"
    THEN [lastEditedSLField |-> "price",
          stopLossPriceInput |-> value,
          effectiveStopLossPriceForCalc |-> value,
          stopLossPipsInput |->
              IF value # Empty
              THEN getPipsFromPrices(s.entryPrice, value, s.currencyPair)
              ELSE Empty]
    ELSE LET derivedPrice ==
                 IF value # Empty
                 THEN getPriceFromPips(s.entryPrice, value, s.currencyPair,
                                       s.tradeType, TRUE)
                 ELSE Empty
         IN  [lastEditedSLField |-> "pips",
              stopLossPipsInput |-> value,
              stopLossPriceInput |-> derivedPrice,
              effectiveStopLossPriceForCalc |-> derivedPrice]

\* updateTPValues(editedField, value)
updateTPValues(s, editedField, value) ==
    IF ~EntryUsable(s) THEN ClearTP
    ELSE IF editedField = "price"
    THEN [lastEditedTPField |-> "price",
          takeProfitPriceInput |-> value,
          effectiveTakeProfitPriceForCalc |-> value,
          takeProfitPipsInput |->
              IF value # Empty
              THEN getPipsFromPrices(s.entryPrice, value, s.currencyPair)
              ELSE Empty]
    ELSE LET derivedPrice ==
                 IF value # Empty
                 THEN getPriceFromPips(s.entryPrice, value, s.currencyPair,
                                       s.tradeType, FALSE)
                 ELSE Empty
         IN  [lastEditedTPField |-> "pips",
              takeProfitPipsInput |-> value,
              takeProfitPriceInput |-> derivedPrice,
              effectiveTakeProfitPriceForCalc |-> derivedPrice]

\* every effect of the last render has run and no dependency changed since
Settled == mounted /\ rendered = Deps(S)

\* an event handler runs between renders: its set-state calls u are batched
Handle(kind, arg, u) ==
    /\ Settled
    /\ Commit(S, u)
    /\ passes' = 0
    /\ evt' = [kind |-> kind, arg |-> arg]
    /\ pre' = S
    /\ UNCHANGED <<mounted, rendered, inflight, calc, env>>

\* handleCurrencyPairInputSymbolChange(value)
handleCurrencyPairInputSymbolChange(value) ==
    /\ value # currencyPairInputSymbol
    /\ BagCardinality(inflight) < MaxInFlight
    /\ Handle("symbol", value, [currencyPairInputSymbol |-> value] @@ Touched)

\* handleTradeTypeChange(value)
handleTradeTypeChange(value) ==
    Handle("tradeType", value, [tradeType |-> value] @@ Touched)

\* handleEntryPriceChange(value)
handleEntryPriceChange(value) ==
    Handle("entryPrice", value, [entryPrice |-> value] @@ Touched)

\* handleSLPriceInputChange(value)
handleSLPriceInputChange(value) ==
    Handle("slPrice", value, updateSLValues(S, "price", value) @@ Touched)

\* handleSLPipsInputChange(value)
handleSLPipsInputChange(value) ==
    Handle("slPips", value, updateSLValues(S, "pips", value) @@ Touched)

\* handleTPPriceInputChange(value)
handleTPPriceInputChange(value) ==
    Handle("tpPrice", value, updateTPValues(S, "price", value) @@ Touched)

\* handleTPPipsInputChange(value)
handleTPPipsInputChange(value) ==
    Handle("tpPips", value, updateTPValues(S, "pips", value) @@ Touched)

\* handleAccountSizeChange(value)
handleAccountSizeChange(value) ==
    Handle("accountSize", value, [accountSize |-> value] @@ Touched)

\* handleRiskValueChange(value)
handleRiskValueChange(value) ==
    Handle("riskValue", value, [riskValue |-> value] @@ Touched)

\* the history keeps the 10 newest entries
HistoryCap == 10

\* the account currency, leverage and risk type selected at start-up
InitialAccountCurrency == USD

InitialLeverage == <<"1",":","5","0","0">>

InitialRiskType == "percentage"

\* performCalculation: the inputs handed to calculateLotSize
CalculationInputsOf(s) ==
    [accountCurrency |-> InitialAccountCurrency,
     accountSize |-> s.accountSize,
     leverage |-> InitialLeverage,
     riskType |-> InitialRiskType,
     riskValue |-> s.riskValue,
     currencyPair |-> s.currencyPair,
     entryPrice |-> s.entryPrice,
     stopLossPrice |-> s.effectiveStopLossPriceForCalc,
     takeProfitPrice |->
         IF IsNumber(s.effectiveTakeProfitPriceForCalc)
            /\ JGt(s.effectiveTakeProfitPriceForCalc, Zero)
         THEN s.effectiveTakeProfitPriceForCalc ELSE Undefined,
     tradeType |-> s.tradeType]

\* performCalculation: the entry recorded for a calculation made at time `now`
NewHistoryEntry(s, now, calculatedResults) ==
    [id |-> now,
     inputs |-> [accountSize |-> s.accountSize,
                 riskValue |-> s.riskValue,
                 currencyPair |-> s.currencyPair,
                 tradeType |-> s.tradeType,
                 entryPrice |-> s.entryPrice,
                 stopLossPriceInput |-> s.stopLossPriceInput,
                 stopLossPipsInput |-> s.stopLossPipsInput,
                 takeProfitPriceInput |-> s.takeProfitPriceInput,
                 takeProfitPipsInput |-> s.takeProfitPipsInput,
                 lastEditedSLField |-> s.lastEditedSLField,
                 lastEditedTPField |-> s.lastEditedTPField],
     results |-> calculatedResults]

\* mutant: the list is never cut back to its cap
PushHistory_Unbounded(entry, prevHistory) == <<entry>> \o prevHistory

\* [newHistoryEntry, ...prevHistory].slice(0, 10)
PushHistory(entry, prevHistory) ==
    LET all == <<entry>> \o prevHistory
    IN  SubSeq(all, 1, IF Len(all) < HistoryCap THEN Len(all) ELSE HistoryCap)

\* performCalculation: the pre-calculation validation fails
RequiredMissing(s) ==
    \/ ~IsNumber(s.accountSize) \/ JLe(s.accountSize, Zero)
    \/ ~IsNumber(s.riskValue) \/ JLe(s.riskValue, Zero)
    \/ ~IsNumber(s.entryPrice) \/ JLe(s.entryPrice, Zero)
    \/ s.currencyPair.symbol = <<>> \/ JLe(s.currencyPair.contractSize, Zero)
    \/ ~IsNumber(s.effectiveStopLossPriceForCalc)
    \/ JLe(s.effectiveStopLossPriceForCalc, Zero)

\* performCalculation: the stop-loss is too close to the entry price
TooClose(s) ==
    LET stopLossPipsForCheck ==
            getPipsFromPrices(s.entryPrice, s.effectiveStopLossPriceForCalc,
                              s.currencyPair)
        minPipDistance ==
            JMul(getPairPipMultiplier(s.currencyPair.symbol), R(1, 2))
    IN  IsNumber(stopLossPipsForCheck) /\ JLt(stopLossPipsForCheck, minPipDistance)

\* performCalculation: the result of calculateLotSize is rejected
ResultRejected(calculatedResults) ==
    \/ JLe(calculatedResults.finalLotSize, Zero)
    \/ IsNaN(calculatedResults.finalLotSize)
    \/ IsNaN(calculatedResults.totalRiskAmount)
    \/ IsNaN(calculatedResults.marginRequired)

\* mutant: an entry is recorded even when a required value is missing
performCalculation_AlwaysRecords(s, now) ==
    LET calculatedResults == calculateLotSize(CalculationInputsOf(s))
        pushed(r) ==
            [history |-> PushHistory(NewHistoryEntry(s, now, r), s.history)]
    IN  IF RequiredMissing(s)
        THEN pushed(Null) @@ [calcError |-> "required", results |-> Null]
        ELSE IF TooClose(s)
        THEN pushed(Null) @@ [calcError |-> "tooClose", results |-> Null]
        ELSE IF ResultRejected(calculatedResults)
        THEN [calcError |-> "failed", results |-> Null]
        ELSE pushed(calculatedResults)
             @@ [calcError |-> "null", results |-> calculatedResults]

\* performCalculation(), run at time `now`: its set-state calls
performCalculation(s, now) ==
    LET calculatedResults == calculateLotSize(CalculationInputsOf(s))
    IN  IF RequiredMissing(s) THEN [calcError |-> "required", results |-> Null]
        ELSE IF TooClose(s) THEN [calcError |-> "tooClose", results |-> Null]
        ELSE IF ResultRejected(calculatedResults)
        THEN [calcError |-> "failed", results |-> Null]
        ELSE (IF JGt(calculatedResults.finalLotSize, Zero)
              THEN [history |->
                        PushHistory(NewHistoryEntry(s, now, calculatedResults),
                                    s.history)]
              ELSE NoUpdate)
             @@ [calcError |-> "null", results |-> calculatedResults]

\* handleCalculate(): the Calculate button; the switch to the results view
\* and the scrolling are not part of the state
handleCalculate ==
    /\ Settled
    /\ clock < MaxCalculations
    /\ Commit(S, performCalculation(S, clock + 1) @@ [hasCalculated |-> TRUE])
    /\ clock' = IF "history" \in DOMAIN performCalculation(S, clock + 1)
                THEN clock + 1 ELSE clock
    /\ passes' = 0
    /\ evt' = [kind |-> "calculate", arg |-> <<>>]
    /\ pre' = S
    /\ UNCHANGED <<mounted, rendered, inflight, calc, storage>>

\* handleClearHistory(), the confirmation accepted
handleClearHistory ==
    Handle("clearHistory", <<>>,
           [history |-> <<>>, results |-> Null,
            hasCalculated |-> FALSE, calcError |-> "null"])

\* handleLoadHistoryEntry(entry), for the entry at position i of the history
handleLoadHistoryEntry(i) ==
    LET entry == history[i]
    IN  /\ entry.inputs.currencyPair.symbol # currencyPairInputSymbol
            => BagCardinality(inflight) < MaxInFlight
        /\ Handle("load", i,
               [accountSize |-> entry.inputs.accountSize,
                riskValue |-> entry.inputs.riskValue,
                currencyPairInputSymbol |-> entry.inputs.currencyPair.symbol,
                tradeType |-> entry.inputs.tradeType,
                entryPrice |-> entry.inputs.entryPrice,
                stopLossPriceInput |-> entry.inputs.stopLossPriceInput,
                stopLossPipsInput |-> entry.inputs.stopLossPipsInput,
                lastEditedSLField |-> entry.inputs.lastEditedSLField,
                takeProfitPriceInput |-> entry.inputs.takeProfitPriceInput,
                takeProfitPipsInput |-> entry.inputs.takeProfitPipsInput,
                lastEditedTPField |-> entry.inputs.lastEditedTPField,
                results |-> entry.results,
                hasCalculated |-> TRUE,
                calcError |-> "null"])

\* fetchPrice, after the await: a pending lookup of `symbol` resolves
fetchPriceResolved(symbol) ==
    LET price == fetchMarketPrice(symbol)
    IN  /\ Settled
        /\ BagIn(symbol, inflight)
        /\ Commit(S, IF IsNumber(price) /\ JGt(price, Zero)
                     THEN [entryPrice |-> price] ELSE NoUpdate)
        /\ inflight' = inflight (-) SetToBag({symbol})
        /\ passes' = 0
        /\ evt' = [kind |-> "lookup", arg |-> symbol]
        /\ pre' = S
        /\ UNCHANGED <<mounted, rendered, calc, env>>

\* one render: the effects whose dependencies changed run in declaration
\* order on the values of this render, and their set-state calls are batched
RunEffects ==
    LET s == S
        runInstrument ==
            ~mounted \/ rendered.currencyPairInputSymbol # s.currencyPairInputSymbol
        runAutoFill == ~mounted \/ rendered.currencyPair # s.currencyPair
        runResync ==
            ~mounted
            \/ [rendered EXCEPT !.currencyPairInputSymbol = <<>>, !.history = <<>>]
               # [Deps(s) EXCEPT !.currencyPairInputSymbol = <<>>, !.history = <<>>]
        runLoad == ~mounted
        runSave == ~mounted \/ rendered.history # s.history
        u == (IF runResync THEN ResyncEffect(s) ELSE NoUpdate)
             @@ (IF runAutoFill THEN AutoFillEffect(s) ELSE NoUpdate)
             @@ (IF runInstrument THEN InstrumentEffect(s) ELSE NoUpdate)
             @@ (IF runLoad THEN LoadHistoryEffect(storage) ELSE NoUpdate)
    IN  /\ ~Settled
        /\ Commit(s, u)
        /\ inflight' = IF runAutoFill /\ StartsFetch(s)
                       THEN inflight (+) SetToBag({s.currencyPair.symbol})
                       ELSE inflight
        /\ storage' = IF runSave THEN SaveHistoryEffect(s)
                      ELSE IF runLoad THEN StorageAfterLoad(storage)
                      ELSE storage
        /\ mounted' = TRUE
        /\ rendered' = Deps(s)
        /\ passes' = passes + 1
        /\ UNCHANGED <<evt, pre, calc, clock>>

----------------------------------------------------------------------------
(* the application: initial render, events, effects *)

NoCalc == [none |-> TRUE]

InitCells ==
    /\ accountSize = R(10000, 1)
    /\ riskValue = R(1, 1)
    /\ results = Null
    /\ history = <<>>
    /\ currencyPairInputSymbol = ALL_CURRENCY_PAIRS[1].symbol
    /\ currencyPair = ALL_CURRENCY_PAIRS[1]
    /\ tradeType = "buy"
    /\ entryPrice = Empty
    /\ stopLossPriceInput = Empty
    /\ stopLossPipsInput = Empty
    /\ effectiveStopLossPriceForCalc = Empty
    /\ lastEditedSLField = "null"
    /\ takeProfitPriceInput = Empty
    /\ takeProfitPipsInput = Empty
    /\ effectiveTakeProfitPriceForCalc = Empty
    /\ lastEditedTPField = "null"
    /\ hasCalculated = FALSE
    /\ calcError = "null"

Init ==
    /\ InitCells
    /\ storage = NoItem
    /\ clock = 0
    /\ mounted = FALSE
    /\ rendered = Deps(S)
    /\ inflight = EmptyBag
    /\ passes = 0
    /\ evt = [kind |-> "mount", arg |-> <<>>]
    /\ pre = S
    /\ calcIn = NoCalc
    /\ calcOut = NoCalc

Next ==
    \/ RunEffects
    \/ \E v \in SymbolInputs : handleCurrencyPairInputSymbolChange(v)
    \/ \E v \in {"buy", "sell"} : handleTradeTypeChange(v)
    \/ \E v \in EntryInputs : handleEntryPriceChange(v)
    \/ \E v \in PriceInputs : handleSLPriceInputChange(v)
    \/ \E v \in PipsInputs : handleSLPipsInputChange(v)
    \/ \E v \in TPPriceInputs : handleTPPriceInputChange(v)
    \/ \E v \in TPPipsInputs : handleTPPipsInputChange(v)
    \/ \E v \in BagToSet(inflight) : fetchPriceResolved(v)

Spec == Init /\ [][Next]_vars

----------------------------------------------------------------------------
(* price/pips synchronisation: properties *)

Usable(entry, pair) ==
    IsNumber(entry) /\ JGt(entry, Zero) /\ pair.symbol # <<>>

SLCleared ==
    /\ stopLossPriceInput = Empty /\ stopLossPipsInput = Empty
    /\ effectiveStopLossPriceForCalc = Empty /\ lastEditedSLField = "null"

TPCleared ==
    /\ takeProfitPriceInput = Empty /\ takeProfitPipsInput = Empty
    /\ effectiveTakeProfitPriceForCalc = Empty /\ lastEditedTPField = "null"

\* C1: in every settled state the effective stop-loss / take-profit price is
\* the displayed price when the side is anchored on price, and the price
\* derived from the displayed pips, the current entry price, instrument and
\* direction when it is anchored on pips (and empty when there is no anchor).
C1_EffectiveFollowsAnchor ==
    Settled =>
        /\ lastEditedSLField = "price" =>
               effectiveStopLossPriceForCalc = stopLossPriceInput
        /\ lastEditedSLField = "pips" =>
               effectiveStopLossPriceForCalc =
                   getPriceFromPips(entryPrice, stopLossPipsInput,
                                    currencyPair, tradeType, TRUE)
        /\ lastEditedSLField = "null" => effectiveStopLossPriceForCalc = Empty
        /\ lastEditedTPField = "price" =>
               effectiveTakeProfitPriceForCalc = takeProfitPriceInput
        /\ lastEditedTPField = "pips" =>
               effectiveTakeProfitPriceForCalc =
                   getPriceFromPips(entryPrice, takeProfitPipsInput,
                                    currencyPair, tradeType, FALSE)
        /\ lastEditedTPField = "null" => effectiveTakeProfitPriceForCalc = Empty

\* C1 witness: settled after the entry price changed under a stop-loss
\* anchored on pips and a take-profit anchored on price
C1_Witness ==
    /\ Settled
    /\ evt.kind \in {"entryPrice", "lookup"}
    /\ pre.entryPrice # entryPrice
    /\ pre.lastEditedSLField = "pips" /\ lastEditedSLField = "pips"
    /\ IsNumber(pre.effectiveStopLossPriceForCalc)
    /\ IsNumber(effectiveStopLossPriceForCalc)
    /\ effectiveStopLossPriceForCalc # pre.effectiveStopLossPriceForCalc
    /\ lastEditedTPField = "price"
    /\ IsNumber(effectiveTakeProfitPriceForCalc)

\* the stop-loss side as left by an edit of `field` to `value` in context c
SLAnchored(field, value, c) ==
    IF field = "price"
    THEN /\ lastEditedSLField = "price"
         /\ stopLossPriceInput = value
         /\ effectiveStopLossPriceForCalc = value
         /\ stopLossPipsInput = getPipsFromPrices(c.entryPrice, value, c.currencyPair)
    ELSE /\ lastEditedSLField = "pips"
         /\ stopLossPipsInput = value
         /\ stopLossPriceInput =
                getPriceFromPips(c.entryPrice, value, c.currencyPair, c.tradeType, TRUE)
         /\ effectiveStopLossPriceForCalc = stopLossPriceInput

TPAnchored(field, value, c) ==
    IF field = "price"
    THEN /\ lastEditedTPField = "price"
         /\ takeProfitPriceInput = value
         /\ effectiveTakeProfitPriceForCalc = value
         /\ takeProfitPipsInput = getPipsFromPrices(c.entryPrice, value, c.currencyPair)
    ELSE /\ lastEditedTPField = "pips"
         /\ takeProfitPipsInput = value
         /\ takeProfitPriceInput =
                getPriceFromPips(c.entryPrice, value, c.currencyPair, c.tradeType, FALSE)
         /\ effectiveTakeProfitPriceForCalc = takeProfitPriceInput

EditedField == IF evt.kind \in {"slPrice", "tpPrice"} THEN "price" ELSE "pips"

\* a value the resync effect accepts as the anchor of `field`
ValidAnchor(field, value) ==
    /\ IsNumber(value)
    /\ IF field = "price" THEN JGt(value, Zero) ELSE JGe(value, Zero)

\* C2 as stated: an edit of the price (pips) field of a side always anchors
\* the side on that field, with the typed value kept, the effective price
\* following it and the other field derived from it; with an invalid entry
\* price the derivation yields empty, so only the derived field(s) are cleared.
C2_Original ==
    passes = 0 =>
        /\ evt.kind \in {"slPrice", "slPips"} => SLAnchored(EditedField, evt.arg, pre)
        /\ evt.kind \in {"tpPrice", "tpPips"} => TPAnchored(EditedField, evt.arg, pre)

\* C2 amended: with a usable entry price (a number > 0) and a non-empty
\* instrument symbol, an edit anchors the side on the edited field as stated,
\* and a valid typed value keeps it so once the effects settle; with an
\* unusable entry price or an empty symbol the edit is discarded: price, pips
\* and effective price of the side are cleared and its anchor is unset.
C2_EditSetsAnchor ==
    /\ (passes = 0 /\ evt.kind \in {"slPrice", "slPips"}) =>
           IF Usable(pre.entryPrice, pre.currencyPair)
           THEN SLAnchored(EditedField, evt.arg, pre) ELSE SLCleared
    /\ (passes = 0 /\ evt.kind \in {"tpPrice", "tpPips"}) =>
           IF Usable(pre.entryPrice, pre.currencyPair)
           THEN TPAnchored(EditedField, evt.arg, pre) ELSE TPCleared
    /\ (Settled /\ evt.kind \in {"slPrice", "slPips"}
        /\ Usable(pre.entryPrice, pre.currencyPair)
        /\ ValidAnchor(EditedField, evt.arg)) =>
           SLAnchored(EditedField, evt.arg, pre)
    /\ (Settled /\ evt.kind \in {"tpPrice", "tpPips"}
        /\ Usable(pre.entryPrice, pre.currencyPair)
        /\ ValidAnchor(EditedField, evt.arg)) =>
           TPAnchored(EditedField, evt.arg, pre)

\* C2 witness: settled after a stop-loss pips edit that moved the anchor from
\* price to pips and derived a price
C2_Witness ==
    /\ Settled /\ passes > 0
    /\ evt.kind = "slPips"
    /\ pre.lastEditedSLField = "price"
    /\ lastEditedSLField = "pips"
    /\ stopLossPipsInput = evt.arg
    /\ IsNumber(stopLossPriceInput)
    /\ stopLossPriceInput # pre.stopLossPriceInput

\* C3 as stated: when the entry price or the direction changes while a side is
\* anchored on a valid value, the anchor and the anchored value are kept and
\* the other field is re-derived against the new context.
C3_Original ==
    (Settled /\ evt.kind \in {"entryPrice", "tradeType"}) =>
        /\ pre.lastEditedSLField \in {"price", "pips"} =>
               SLAnchored(pre.lastEditedSLField,
                          IF pre.lastEditedSLField = "price"
                          THEN pre.stopLossPriceInput ELSE pre.stopLossPipsInput, S)
        /\ pre.lastEditedTPField \in {"price", "pips"} =>
               TPAnchored(pre.lastEditedTPField,
                          IF pre.lastEditedTPField = "price"
                          THEN pre.takeProfitPriceInput ELSE pre.takeProfitPipsInput, S)

\* C3 amended: when the direction changes, or the entry price changes to a
\* usable value (a number > 0), a side anchored on a valid value keeps its
\* anchor and anchored value and has the other field re-derived against the
\* new context; when the entry price changes to empty or to a value not > 0,
\* both sides become Uninitialized with price, pips and effective price
\* cleared, whatever their anchors held.
C3_ContextChangeKeepsAnchor ==
    (Settled /\ evt.kind \in {"entryPrice", "tradeType", "lookup"}) =>
        IF Usable(entryPrice, currencyPair)
        THEN /\ pre.lastEditedSLField \in {"price", "pips"} =>
                    SLAnchored(pre.lastEditedSLField,
                               IF pre.lastEditedSLField = "price"
                               THEN pre.stopLossPriceInput
                               ELSE pre.stopLossPipsInput, S)
             /\ pre.lastEditedTPField \in {"price", "pips"} =>
                    TPAnchored(pre.lastEditedTPField,
                               IF pre.lastEditedTPField = "price"
                               THEN pre.takeProfitPriceInput
                               ELSE pre.takeProfitPipsInput, S)
        ELSE SLCleared /\ TPCleared

\* C3 witness: settled after a direction change that moved the derived price
\* of a stop-loss anchored on pips
C3_Witness ==
    /\ Settled
    /\ evt.kind = "tradeType" /\ pre.tradeType # tradeType
    /\ pre.lastEditedSLField = "pips" /\ lastEditedSLField = "pips"
    /\ stopLossPipsInput = pre.stopLossPipsInput
    /\ IsNumber(pre.stopLossPriceInput) /\ IsNumber(stopLossPriceInput)
    /\ stopLossPriceInput # pre.stopLossPriceInput

\* C4: once the effects of a change of the instrument symbol have settled,
\* stop-loss and take-profit price, pips, effective price and anchor are all
\* cleared and the entry price is empty, waiting for the price lookup.
C4_SymbolChangeResets ==
    (Settled /\ evt.kind = "symbol") =>
        SLCleared /\ TPCleared /\ entryPrice = Empty

\* C4 witness: settled after switching to XAU/USD from a form with an entry
\* price and both sides anchored; the lookup for XAU/USD is pending
C4_Witness ==
    /\ Settled
    /\ evt.kind = "symbol" /\ evt.arg = XAUUSD
    /\ IsNumber(pre.entryPrice)
    /\ pre.lastEditedSLField = "price" /\ pre.lastEditedTPField = "pips"
    /\ IsNumber(pre.effectiveStopLossPriceForCalc)
    /\ IsNumber(pre.effectiveTakeProfitPriceForCalc)
    /\ currencyPair.symbol = XAUUSD
    /\ BagIn(XAUUSD, inflight)

\* C5: a lookup result is applied only for the selected instrument: when a
\* lookup has filled the entry price, the entry price is the reference price
\* of the currently selected instrument.
C5_AutoFillIsCurrent ==
    (evt.kind = "lookup" /\ IsNumber(fetchMarketPrice(evt.arg))) =>
        entryPrice = fetchMarketPrice(currencyPair.symbol)

----------------------------------------------------------------------------
(* the calculation engine on its own: calculateLotSize applied to inputs *)

CalcAccountSizes == { R(-1, 1), Zero, R(100, 1), R(10000, 1), NaN }

CalcRiskValues == { Zero, R(1, 100), R(1, 1), R(50, 1), R(200, 1) }

CalcEntryPrices == { Zero, R(107, 100) }

CalcStopLossPrices == { R(-1, 1), Zero, R(213, 200), R(1067, 1000), R(107, 100) }

CalcTakeProfitPrices == { Undefined, Zero, R(27, 25) }

\* EUR/USD, USD/JPY, EUR/GBP, XAU/USD and the pair of an empty symbol
CalcPairs ==
    { ALL_CURRENCY_PAIRS[1], ALL_CURRENCY_PAIRS[3], ALL_CURRENCY_PAIRS[8],
      ALL_CURRENCY_PAIRS[31], EmptyPair }

CalcInputs ==
    [accountCurrency : { USD, <<"I","N","R">> },
     accountSize : CalcAccountSizes,
     leverage : { <<"1",":","5","0","0">>, <<"1",":","3","0">> },
     riskType : { "percentage", "amount" },
     riskValue : CalcRiskValues,
     currencyPair : CalcPairs,
     entryPrice : CalcEntryPrices,
     stopLossPrice : CalcStopLossPrices,
     takeProfitPrice : CalcTakeProfitPrices,
     tradeType : { "buy", "sell" }]

ScenarioA ==
    [accountCurrency |-> USD, accountSize |-> R(10000, 1),
     leverage |-> <<"1",":","5","0","0">>, riskType |-> "percentage",
     riskValue |-> R(1, 1), currencyPair |-> ALL_CURRENCY_PAIRS[1],
     entryPrice |-> R(107, 100), stopLossPrice |-> R(213, 200),
     takeProfitPrice |-> Undefined, tradeType |-> "buy"]

ScenarioB == [ScenarioA EXCEPT !.riskType = "amount", !.riskValue = R(200, 1)]

\* calculateLotSize(calcIn) is called and returns
CallCalculateLotSize ==
    /\ calcOut = NoCalc
    /\ calcOut' = calculateLotSize(calcIn)
    /\ UNCHANGED <<cells, env, react, calcIn>>

InitCalc ==
    /\ InitCells
    /\ storage = NoItem
    /\ clock = 0
    /\ mounted = FALSE
    /\ rendered = Deps(S)
    /\ inflight = EmptyBag
    /\ passes = 0
    /\ evt = [kind |-> "mount", arg |-> <<>>]
    /\ pre = S
    /\ calcIn \in CalcInputs
    /\ calcOut = NoCalc

\* a call with other inputs (scenario B) is made after the first call
CallCalculateLotSizeOther ==
    /\ "finalLotSize" \in DOMAIN calcOut
    /\ calcOut' = [first |-> calcOut, other |-> calculateLotSize(ScenarioB)]
    /\ UNCHANGED <<cells, env, react, calcIn>>

\* calculateLotSize(calcIn) is called a second time, directly after the first
\* call or after the call with other inputs
CallCalculateLotSizeAgain ==
    /\ \/ /\ "finalLotSize" \in DOMAIN calcOut
          /\ calcOut' = [first |-> calcOut, second |-> calculateLotSize(calcIn)]
       \/ /\ "other" \in DOMAIN calcOut /\ "second" \notin DOMAIN calcOut
          /\ calcOut' = [first |-> calcOut.first, other |-> calcOut.other,
                         second |-> calculateLotSize(calcIn)]
    /\ UNCHANGED <<cells, env, react, calcIn>>

NextCalc ==
    \/ CallCalculateLotSize
    \/ CallCalculateLotSizeOther
    \/ CallCalculateLotSizeAgain

SpecCalc == InitCalc /\ [][NextCalc]_vars

\* the first call has returned and no further call was made
Returned == "finalLotSize" \in DOMAIN calcOut

\* account size, risk value, entry price and stop-loss price are all > 0
AllPositive(in) ==
    /\ JGt(in.accountSize, Zero) /\ JGt(in.riskValue, Zero)
    /\ JGt(in.entryPrice, Zero) /\ JGt(in.stopLossPrice, Zero)

\* the risk the inputs ask for, in account currency
RequestedRisk(in) ==
    IF in.riskType = "percentage"
    THEN JDiv(JMul(in.accountSize, in.riskValue), R(100, 1))
    ELSE in.riskValue

\* C6: inputs with accountSize <= 0, riskValue <= 0, entryPrice <= 0 or
\* stopLossPrice <= 0 get the all-zero result: every amount 0, the
\* take-profit fields null, category micro.
C6_DegenerateInputs ==
    (Returned /\ (\/ JLe(calcIn.accountSize, Zero) \/ JLe(calcIn.riskValue, Zero)
                  \/ JLe(calcIn.entryPrice, Zero) \/ JLe(calcIn.stopLossPrice, Zero))) =>
        calcOut = [finalLotSize |-> Zero, totalRiskAmount |-> Zero,
                   riskPerPip |-> Zero, stopLossPips |-> Zero,
                   marginRequired |-> Zero, effectiveRiskPercentage |-> Zero,
                   takeProfitPips |-> Null, potentialProfitAtTP |-> Null,
                   riskToRewardRatio |-> Null, lotSizeCategory |-> "micro"]

\* C6 witness: a result for a stop-loss price of 0 with the other three
\* required inputs positive
C6_Witness ==
    /\ Returned
    /\ calcIn.stopLossPrice = Zero
    /\ JGt(calcIn.accountSize, Zero) /\ JGt(calcIn.riskValue, Zero)
    /\ JGt(calcIn.entryPrice, Zero)
    /\ calcOut.finalLotSize = Zero /\ calcOut.lotSizeCategory = "micro"

\* C7: with the four required inputs positive and the stop-loss price
\* different from the entry price, the returned finalLotSize is >= 0.01.
C7_MinimumLotSize ==
    (Returned /\ AllPositive(calcIn) /\ calcIn.entryPrice # calcIn.stopLossPrice) =>
        JGe(calcOut.finalLotSize, R(1, 100))

\* C7 witness: a risk of 0.01 (0.01% of 100), whose lot size rounds to 0.00,
\* is returned as 0.01
C7_Witness ==
    /\ Returned
    /\ calcIn.accountSize = R(100, 1) /\ calcIn.riskValue = R(1, 100)
    /\ calcIn.riskType = "percentage"
    /\ calcIn.currencyPair = ALL_CURRENCY_PAIRS[1]
    /\ JGt(calcIn.entryPrice, Zero) /\ calcIn.stopLossPrice = R(213, 200)
    /\ calcOut.finalLotSize = R(1, 100)

\* C8: for valid inputs with a non-zero stop-loss distance, finalLotSize is
\* requested risk / (stopLossPips * pipValuePerStandardLot) rounded to two
\* decimals and raised to 0.01 if smaller; scenario A gives 0.20 and
\* scenario B 0.40.
C8_LotSizeFormula ==
    /\ (Returned /\ AllPositive(calcIn) /\ calcIn.entryPrice # calcIn.stopLossPrice) =>
           LET pips == JDiv(JAbs(JSub(calcIn.entryPrice, calcIn.stopLossPrice)),
                            getPairPipMultiplier(calcIn.currencyPair.symbol))
               perLot == calculatePipValue(calcIn.currencyPair, calcIn.accountCurrency)
               rounded == ToFixed2(JDiv(RequestedRisk(calcIn), JMul(pips, perLot)))
           IN  calcOut.finalLotSize =
                   IF JLt(rounded, R(1, 100)) THEN R(1, 100) ELSE rounded
    /\ (Returned /\ calcIn = ScenarioA) => calcOut.finalLotSize = R(20, 100)
    /\ (Returned /\ calcIn = ScenarioB) => calcOut.finalLotSize = R(40, 100)

\* C8 witness: the result of scenario B
C8_Witness ==
    /\ Returned /\ calcIn = ScenarioB
    /\ calcOut.finalLotSize = R(40, 100)
    /\ calcOut.stopLossPips = R(50, 1)

\* C9 as stated: for valid inputs the returned totalRiskAmount is the
\* requested risk: accountSize * riskValue / 100 for a percentage, riskValue
\* for an amount.
C9_Original ==
    (Returned /\ AllPositive(calcIn)) =>
        calcOut.totalRiskAmount = RequestedRisk(calcIn)

\* C9 amended: for valid inputs with a non-zero stop-loss distance the
\* returned totalRiskAmount is the risk of the rounded lot size,
\* finalLotSize * stopLossPips * pipValuePerStandardLot (0 if that is NaN);
\* it is the requested risk when the stop-loss distance is exactly 0.
C9_ReturnedRiskAmount ==
    (Returned /\ AllPositive(calcIn)) =>
        IF calcIn.entryPrice = calcIn.stopLossPrice
        THEN calcOut.totalRiskAmount = RequestedRisk(calcIn)
        ELSE LET actual ==
                     JMul(JMul(calcOut.finalLotSize, calcOut.stopLossPips),
                          calculatePipValue(calcIn.currencyPair,
                                            calcIn.accountCurrency))
             IN  calcOut.totalRiskAmount = IF IsNaN(actual) THEN Zero ELSE actual

\* C9 witness: a result whose totalRiskAmount is a number other than the
\* requested risk
C9_Witness ==
    /\ Returned /\ AllPositive(calcIn)
    /\ calcIn.entryPrice # calcIn.stopLossPrice
    /\ calcIn.currencyPair = ALL_CURRENCY_PAIRS[1]
    /\ calcOut.totalRiskAmount # RequestedRisk(calcIn)
    /\ JGt(calcOut.totalRiskAmount, Zero)

\* C10: with the stop-loss price equal to the entry price and the required
\* inputs positive, the result has finalLotSize, riskPerPip, stopLossPips and
\* marginRequired 0, null take-profit fields and category micro, while
\* totalRiskAmount is the requested risk and effectiveRiskPercentage is
\* totalRiskAmount / accountSize * 100.
C10_ZeroDistance ==
    (Returned /\ AllPositive(calcIn) /\ calcIn.entryPrice = calcIn.stopLossPrice) =>
        calcOut = [finalLotSize |-> Zero, riskPerPip |-> Zero,
                   stopLossPips |-> Zero, marginRequired |-> Zero,
                   takeProfitPips |-> Null, potentialProfitAtTP |-> Null,
                   riskToRewardRatio |-> Null, lotSizeCategory |-> "micro",
                   totalRiskAmount |-> RequestedRisk(calcIn),
                   effectiveRiskPercentage |->
                       JMul(JDiv(RequestedRisk(calcIn), calcIn.accountSize),
                            R(100, 1))]

\* C10 witness: 1% of 10,000 with the stop-loss at the entry price and a
\* take-profit price given
C10_Witness ==
    /\ Returned
    /\ calcIn.accountSize = R(10000, 1) /\ calcIn.riskValue = R(1, 1)
    /\ calcIn.riskType = "percentage"
    /\ calcIn.entryPrice = R(107, 100) /\ calcIn.stopLossPrice = R(107, 100)
    /\ calcIn.takeProfitPrice = R(27, 25)
    /\ calcOut.totalRiskAmount = R(100, 1)
    /\ calcOut.effectiveRiskPercentage = R(1, 1)
    /\ calcOut.finalLotSize = Zero

\* the inputs pass the validation of calculateLotSize and the stop-loss
\* distance is not zero
FullResult(in) == AllPositive(in) /\ in.entryPrice # in.stopLossPrice

\* isNaN(x) ? null : x
NullIfNaN(x) == IF IsNaN(x) THEN Null ELSE x

C15_NoNaNInResult ==
    Returned =>
        /\ ~IsNaN(calcOut.finalLotSize) /\ ~IsNaN(calcOut.totalRiskAmount)
        /\ ~IsNaN(calcOut.riskPerPip) /\ ~IsNaN(calcOut.stopLossPips)
        /\ ~IsNaN(calcOut.marginRequired)
        /\ ~IsNaN(calcOut.effectiveRiskPercentage)
        /\ ~IsNaN(calcOut.takeProfitPips) /\ ~IsNaN(calcOut.potentialProfitAtTP)
        /\ ~IsNaN(calcOut.riskToRewardRatio)

\* C18: in every result of calculateLotSize, the degenerate ones included,
\* lotSizeCategory is standard exactly when finalLotSize >= 1.0, mini exactly
\* when 0.1 <= finalLotSize < 1.0 and micro otherwise.
C18_LotSizeCategory ==
    Returned =>
        /\ calcOut.lotSizeCategory \in {"standard", "mini", "micro"}
        /\ calcOut.lotSizeCategory = "standard" <=>
               JGe(calcOut.finalLotSize, R(1, 1))
        /\ calcOut.lotSizeCategory = "mini" <=>
               (JGe(calcOut.finalLotSize, R(1, 10))
                /\ JLt(calcOut.finalLotSize, R(1, 1)))

\* C18 witness: a risk of 50 over 50 pips of EUR/USD, a lot size of exactly
\* 0.1, is mini
C18_Witness ==
    /\ Returned /\ FullResult(calcIn)
    /\ calcIn.currencyPair = ALL_CURRENCY_PAIRS[1]
    /\ calcIn.riskType = "amount" /\ calcIn.riskValue = R(50, 1)
    /\ calcOut.finalLotSize = R(1, 10)
    /\ calcOut.lotSizeCategory = "mini"

----------------------------------------------------------------------------
(* the conversion helpers on their own: getPriceFromPips, getPipsFromPrices
   and getPairPipMultiplier applied to inputs *)

ConvEntries == { Empty, Zero, R(-1, 1), R(107, 100), R(2350, 1) }

\* 10,700 pips of 0.0001 are exactly 1.07; 30,000 pips exceed both entries
ConvPips == { Empty, R(-1, 1), Zero, R(1, 2), R(50, 1), R(10700, 1), R(30000, 1) }

ConvTargets == { Empty, Zero, R(-1, 1), R(213, 200), R(107, 100), R(2400, 1) }

\* symbols typed by the user that are not in the catalog
ConvCustomSymbols ==
    { <<"x","a","u","/","u","s","d">>, <<"X","A","G","/","E","U","R">>,
      <<"U","S","3","0">>, <<"n","a","s","1","0","0">>,
      <<"X","A","/","U","S","D">>, <<"G","B","P","/","S","E","K">> }

\* every catalog pair, the pair of an empty symbol and custom pairs
ConvPairs ==
    { ALL_CURRENCY_PAIRS[i] : i \in 1..Len(ALL_CURRENCY_PAIRS) }
        \cup { EmptyPair } \cup { CustomPair(sym) : sym \in ConvCustomSymbols }

ConvInputs ==
    [entry : ConvEntries, pips : ConvPips, target : ConvTargets,
     pair : ConvPairs, type : { "buy", "sell" }, isSL : BOOLEAN]

ConvResult(fn, price, pips, multiplier) ==
    [fn |-> fn, price |-> price, pips |-> pips, multiplier |-> multiplier]

\* getPriceFromPips(entry, pips, pair, type, isSL) is called
CallGetPriceFromPips ==
    /\ calcOut = NoCalc
    /\ calcOut' = ConvResult("getPriceFromPips",
                             getPriceFromPips(calcIn.entry, calcIn.pips, calcIn.pair,
                                              calcIn.type, calcIn.isSL),
                             Null, Null)
    /\ UNCHANGED <<cells, env, react, calcIn>>

\* getPipsFromPrices(entry, target, pair) is called
CallGetPipsFromPrices ==
    /\ calcOut = NoCalc
    /\ calcOut' = ConvResult("getPipsFromPrices", Null,
                             getPipsFromPrices(calcIn.entry, calcIn.target,
                                               calcIn.pair),
                             Null)
    /\ UNCHANGED <<cells, env, react, calcIn>>

\* getPipsFromPrices is called on the price getPriceFromPips returned
CallGetPipsFromDerivedPrice ==
    /\ calcOut # NoCalc
    /\ calcOut.fn = "getPriceFromPips"
    /\ calcOut' = ConvResult("roundTrip", calcOut.price,
                             getPipsFromPrices(calcIn.entry, calcOut.price,
                                               calcIn.pair),
                             Null)
    /\ UNCHANGED <<cells, env, react, calcIn>>

\* getPairPipMultiplier(symbol) is called
CallGetPairPipMultiplier ==
    /\ calcOut = NoCalc
    /\ calcOut' = ConvResult("getPairPipMultiplier", Null, Null,
                             getPairPipMultiplier(calcIn.pair.symbol))
    /\ UNCHANGED <<cells, env, react, calcIn>>

InitConv ==
    /\ InitCells
    /\ storage = NoItem
    /\ clock = 0
    /\ mounted = FALSE
    /\ rendered = Deps(S)
    /\ inflight = EmptyBag
    /\ passes = 0
    /\ evt = [kind |-> "mount", arg |-> <<>>]
    /\ pre = S
    /\ calcIn \in ConvInputs
    /\ calcOut = NoCalc

NextConv ==
    \/ CallGetPriceFromPips
    \/ CallGetPipsFromPrices
    \/ CallGetPipsFromDerivedPrice
    \/ CallGetPairPipMultiplier

SpecConv == InitConv /\ [][NextConv]_vars

ConvReturned(fn) == calcOut # NoCalc /\ calcOut.fn = fn

\* a present value that is > 0
Positive(x) == IsNumber(x) /\ JGt(x, Zero)

\* the price entry -/+ pips * multiplier of the direction and role
PriceAt(in) ==
    LET change == JMul(in.pips, getPairPipMultiplier(in.pair.symbol))
    IN  IF (in.type = "buy") = in.isSL
        THEN JSub(in.entry, change) ELSE JAdd(in.entry, change)

\* C12 as stated: for any entry price > 0 and any pip distance >= 0, any
\* instrument, direction and role, getPipsFromPrices applied to the price
\* that getPriceFromPips returns gives the pip distance back.
C12_Original ==
    (ConvReturned("roundTrip") /\ Positive(calcIn.entry)
     /\ IsNumber(calcIn.pips) /\ JGe(calcIn.pips, Zero)) =>
        calcOut.pips = calcIn.pips

\* C12 amended: for an entry price > 0 and a pip distance >= 0 the round trip
\* gives the pip distance back whenever the derived price
\* entry -/+ pips * multiplier is > 0; when it is <= 0 (a buy stop-loss or a
\* sell take-profit at least as far away as the entry price is high)
\* getPriceFromPips returns empty and so does the round trip.
C12_RoundTrip ==
    (ConvReturned("roundTrip") /\ Positive(calcIn.entry)
     /\ IsNumber(calcIn.pips) /\ JGe(calcIn.pips, Zero)) =>
        IF JGt(PriceAt(calcIn), Zero)
        THEN calcOut.price = PriceAt(calcIn) /\ calcOut.pips = calcIn.pips
        ELSE calcOut.price = Empty /\ calcOut.pips = Empty

\* C12 witness: 50 pips above an entry of 1.07 (a buy take-profit) come back
\* as 50 pips
C12_Witness ==
    /\ ConvReturned("roundTrip")
    /\ calcIn.entry = R(107, 100) /\ calcIn.pips = R(50, 1)
    /\ calcIn.pair = ALL_CURRENCY_PAIRS[1]
    /\ calcIn.type = "buy" /\ ~calcIn.isSL
    /\ calcOut.price = R(43, 40)
    /\ calcOut.pips = R(50, 1)

\* C13: for a pip distance > 0, a price returned by getPriceFromPips is
\* entry - pips * multiplier, below entry, for a buy stop-loss and a sell
\* take-profit, and entry + pips * multiplier, above entry, for a buy
\* take-profit and a sell stop-loss.
C13_PriceSide ==
    (ConvReturned("getPriceFromPips") /\ IsNumber(calcOut.price)
     /\ IsNumber(calcIn.pips) /\ JGt(calcIn.pips, Zero)) =>
        LET change == JMul(calcIn.pips, getPairPipMultiplier(calcIn.pair.symbol))
            below == \/ (calcIn.type = "buy" /\ calcIn.isSL)
                     \/ (calcIn.type = "sell" /\ ~calcIn.isSL)
        IN  IF below
            THEN /\ JLt(calcOut.price, calcIn.entry)
                 /\ calcOut.price = JSub(calcIn.entry, change)
            ELSE /\ JGt(calcOut.price, calcIn.entry)
                 /\ calcOut.price = JAdd(calcIn.entry, change)

\* C13 witness: the stop-loss of a sell at 1.07, 50 pips away, is 1.075
C13_Witness ==
    /\ ConvReturned("getPriceFromPips")
    /\ calcIn.entry = R(107, 100) /\ calcIn.pips = R(50, 1)
    /\ calcIn.pair = ALL_CURRENCY_PAIRS[1]
    /\ calcIn.type = "sell" /\ calcIn.isSL
    /\ calcOut.price = R(43, 40)

\* C14: getPipsFromPrices returns empty exactly when entry or target is
\* missing or not > 0, and otherwise a number >= 0; getPriceFromPips returns
\* empty exactly when entry is missing or not > 0, pips is missing or < 0, or
\* the computed price is <= 0, and otherwise a number > 0.
C14_EmptySentinel ==
    /\ ConvReturned("getPipsFromPrices") =>
           IF Positive(calcIn.entry) /\ Positive(calcIn.target)
           THEN calcOut.pips.t = "num" /\ JGe(calcOut.pips, Zero)
           ELSE calcOut.pips = Empty
    /\ ConvReturned("getPriceFromPips") =>
           IF /\ Positive(calcIn.entry)
              /\ IsNumber(calcIn.pips) /\ JGe(calcIn.pips, Zero)
              /\ JGt(PriceAt(calcIn), Zero)
           THEN calcOut.price.t = "num" /\ JGt(calcOut.price, Zero)
           ELSE calcOut.price = Empty

\* C14 witness: a buy stop-loss 10,700 pips below an entry of 1.07, a computed
\* price of exactly 0, is returned as empty
C14_Witness ==
    /\ ConvReturned("getPriceFromPips")
    /\ calcIn.entry = R(107, 100) /\ calcIn.pips = R(10700, 1)
    /\ calcIn.pair = ALL_CURRENCY_PAIRS[1]
    /\ calcIn.type = "buy" /\ calcIn.isSL
    /\ PriceAt(calcIn) = Zero
    /\ calcOut.price = Empty

\* sub occurs in s as a run of consecutive characters, case as given
Contains(s, sub) ==
    \E i \in 1..Len(s) : \E j \in i..Len(s) :
        [k \in 1..(j - i + 1) |-> s[i + k - 1]] = sub

----------------------------------------------------------------------------
(* the application with Calculate and the calculation history *)

\* values typed into the form in the runs with history
HistorySLPriceInputs == { R(107, 100) }

\* a stop-loss three tenths of a pip away from the entry price
HistorySLPipsInputs == { R(3, 10) }

\* a form as it stood when an earlier session calculated: EUR/USD bought at
\* 1.07 with the stop-loss typed as the price 1.065
StoredFormA ==
    [accountSize |-> R(10000, 1), riskValue |-> R(1, 1),
     currencyPair |-> ALL_CURRENCY_PAIRS[1], tradeType |-> "buy",
     entryPrice |-> R(107, 100),
     stopLossPriceInput |-> R(213, 200), stopLossPipsInput |-> R(50, 1),
     effectiveStopLossPriceForCalc |-> R(213, 200),
     lastEditedSLField |-> "price",
     takeProfitPriceInput |-> Empty, takeProfitPipsInput |-> Empty,
     effectiveTakeProfitPriceForCalc |-> Empty,
     lastEditedTPField |-> "null"]

\* GBP/USD sold at 1.25 with the stop-loss typed as 50 pips
StoredFormB ==
    [accountSize |-> R(10000, 1), riskValue |-> R(1, 1),
     currencyPair |-> ALL_CURRENCY_PAIRS[2], tradeType |-> "sell",
     entryPrice |-> R(5, 4),
     stopLossPriceInput |-> R(251, 200), stopLossPipsInput |-> R(50, 1),
     effectiveStopLossPriceForCalc |-> R(251, 200),
     lastEditedSLField |-> "pips",
     takeProfitPriceInput |-> Empty, takeProfitPipsInput |-> Empty,
     effectiveTakeProfitPriceForCalc |-> Empty,
     lastEditedTPField |-> "null"]

\* the entry an earlier session saved at time id
StoredEntry(id) ==
    LET form == IF id % 2 = 0 THEN StoredFormA ELSE StoredFormB
    IN  JsonEntry(NewHistoryEntry(form, id,
                                  calculateLotSize(CalculationInputsOf(form))))

\* a full history saved by earlier sessions: ids 0, -1, ..., newest first
StoredHistory == [i \in 1..HistoryCap |-> StoredEntry(1 - i)]

\* what localStorage may hold at start-up
StoredItems ==
    { NoItem, StoredList(StoredHistory),
      CorruptItem(SubSeq(StoredHistory, 1, 1)) }

\* the entries offered to handleLoadHistoryEntry: the newest and the oldest
LoadPositions == { 1, Len(history) } \cap (1..Len(history))

InitHistory ==
    /\ InitCells
    /\ storage \in StoredItems
    /\ clock = 0
    /\ mounted = FALSE
    /\ rendered = Deps(S)
    /\ inflight = EmptyBag
    /\ passes = 0
    /\ evt = [kind |-> "mount", arg |-> storage]
    /\ pre = S
    /\ calcIn = NoCalc
    /\ calcOut = NoCalc

NextHistory ==
    \/ RunEffects
    \/ \E v \in HistorySLPriceInputs : handleSLPriceInputChange(v)
    \/ \E v \in HistorySLPipsInputs : handleSLPipsInputChange(v)
    \/ \E v \in BagToSet(inflight) : fetchPriceResolved(v)
    \/ handleCalculate
    \/ handleClearHistory
    \/ \E i \in LoadPositions : handleLoadHistoryEntry(i)

SpecHistory == InitHistory /\ [][NextHistory]_vars

\* C19: the history never holds more than HistoryCap entries and runs from
\* the newest to the oldest; a successful Calculate puts its entry at the
\* head, a full list loses its last entry, and the entries kept stay in the
\* order they had
C19_HistoryNewestFirst ==
    /\ Len(history) <= HistoryCap
    /\ \A i, j \in 1..Len(history) :
          i < j => history[i].id >= history[j].id
    /\ (evt.kind = "calculate" /\ results # Null) =>
          /\ Len(history) = IF Len(pre.history) < HistoryCap
                            THEN Len(pre.history) + 1 ELSE HistoryCap
          /\ history[1].id = clock
          /\ history[1].results = results
          /\ \A i \in 2..Len(history) : history[i] = pre.history[i - 1]

\* a Calculate succeeded on a full history: the oldest entry is gone
C19_Witness ==
    /\ evt.kind = "calculate"
    /\ results # Null
    /\ Len(pre.history) = HistoryCap
    /\ Len(history) = HistoryCap
    /\ history[HistoryCap] = pre.history[HistoryCap - 1]
    /\ history[1].id > history[2].id

\* C20: only a Calculate whose result has a positive lot size adds a history
\* entry: edits, resyncs, completed lookups and loading an entry leave the
\* history as it was, and a Calculate that fails validation or whose lot size
\* is rejected sets results to null, sets an error and adds nothing
C20_EntriesOnlyFromCalculate ==
    /\ evt.kind \notin {"calculate", "clearHistory", "mount"} =>
          history = pre.history
    /\ evt.kind = "mount" => history \in { <<>>, StoredHistory }
    /\ evt.kind = "clearHistory" => history = <<>>
    /\ evt.kind = "calculate" =>
          IF results = Null
          THEN calcError # "null" /\ history = pre.history
          ELSE /\ JGt(results.finalLotSize, Zero)
               /\ history # pre.history
               /\ history[1].results = results
    /\ (/\ evt.kind = "calculate"
        /\ \/ RequiredMissing(pre)
           \/ TooClose(pre)
           \/ ResultRejected(calculateLotSize(CalculationInputsOf(pre)))) =>
          results = Null

\* a Calculate was refused because the stop-loss sits on the entry price,
\* with entries already in the history
C20_Witness ==
    /\ evt.kind = "calculate"
    /\ calcError = "tooClose"
    /\ results = Null
    /\ history # <<>>
    /\ history = pre.history
    /\ Settled

----------------------------------------------------------------------------
(* calculateMarginRequired and calculatePipValue called on their own *)

ServiceLotSizes == { R(1, 100), R(1, 1), R(5, 2) }

ServiceEntryPrices == { R(107, 100), R(156, 1) }

\* symbols that are not in the catalog: both currencies dollars, a quote and
\* a base without an exchange rate, no quote at all
ServiceCustomSymbols ==
    { <<"U","S","D","/","U","S","D","T">>, <<"G","B","P","/","S","E","K">>,
      <<"S","E","K","/","N","O","K">>, <<"U","S","3","0">> }

ServicePairs ==
    { ALL_CURRENCY_PAIRS[1], ALL_CURRENCY_PAIRS[3], ALL_CURRENCY_PAIRS[8],
      ALL_CURRENCY_PAIRS[31], ALL_CURRENCY_PAIRS[36], EmptyPair }
        \cup { CustomPair(sym) : sym \in ServiceCustomSymbols }

ServiceInputs ==
    [lotSize : ServiceLotSizes, leverage : LEVERAGE_OPTIONS,
     pair : ServicePairs, entryPrice : ServiceEntryPrices,
     accountCurrency : AccountCurrencies]

ServiceResult(fn, value) == [fn |-> fn, value |-> value]

\* calculateMarginRequired(lotSize, leverage, pair, entryPrice, accountCurrency)
\* is called
CallCalculateMarginRequired ==
    /\ calcOut = NoCalc
    /\ calcOut' = ServiceResult("calculateMarginRequired",
                                calculateMarginRequired(calcIn.lotSize,
                                    calcIn.leverage, calcIn.pair,
                                    calcIn.entryPrice, calcIn.accountCurrency))
    /\ UNCHANGED <<cells, env, react, calcIn>>

\* calculatePipValue(pair, accountCurrency) is called
CallCalculatePipValue ==
    /\ calcOut = NoCalc
    /\ calcOut' = ServiceResult("calculatePipValue",
                                calculatePipValue(calcIn.pair,
                                                  calcIn.accountCurrency))
    /\ UNCHANGED <<cells, env, react, calcIn>>

InitService ==
    /\ InitCells
    /\ storage = NoItem
    /\ clock = 0
    /\ mounted = FALSE
    /\ rendered = Deps(S)
    /\ inflight = EmptyBag
    /\ passes = 0
    /\ evt = [kind |-> "mount", arg |-> <<>>]
    /\ pre = S
    /\ calcIn \in ServiceInputs
    /\ calcOut = NoCalc

NextService ==
    \/ CallCalculateMarginRequired
    \/ CallCalculatePipValue

SpecService == InitService /\ [][NextService]_vars

ServiceReturned(fn) == calcOut # NoCalc /\ calcOut.fn = fn

\* the rate of the USD table, 1.0 for a currency that is not in it
TableRate(currency) ==
    IF currency = USD \/ currency = USDT THEN R(1, 1)
    ELSE IF currency = <<"E","U","R">> THEN R(108, 100)
    ELSE IF currency = <<"G","B","P">> THEN R(127, 100)
    ELSE IF currency = <<"J","P","Y">> THEN R(64, 10000)
    ELSE IF currency = <<"I","N","R">> THEN R(12, 1000)
    ELSE IF currency = <<"A","U","D">> THEN R(66, 100)
    ELSE IF currency = <<"N","Z","D">> THEN R(61, 100)
    ELSE IF currency = <<"C","A","D">> THEN R(73, 100)
    ELSE IF currency = <<"C","H","F">> THEN R(111, 100)
    ELSE R(1, 1)

\* the number after "1:" of a leverage option
LeverageRatio(leverage) ==
    IF leverage = <<"1",":","3","0">> THEN R(30, 1)
    ELSE IF leverage = <<"1",":","5","0">> THEN R(50, 1)
    ELSE IF leverage = <<"1",":","1","0","0">> THEN R(100, 1)
    ELSE IF leverage = <<"1",":","2","0","0">> THEN R(200, 1)
    ELSE IF leverage = <<"1",":","5","0","0">> THEN R(500, 1)
    ELSE R(1000, 1)

\* C23: marginRequired is positionValueInUSD / leverageRatio converted from
\* USD to the account currency; the position value is lotSize * contractSize
\* * entryPrice when the quote is USD or USDT, else lotSize * contractSize
\* when the base is USD or USDT, else lotSize * contractSize * the USD rate
\* of the base
C23_MarginRequired ==
    ServiceReturned("calculateMarginRequired") =>
        LET pair == calcIn.pair
            units == JMul(calcIn.lotSize, pair.contractSize)
            positionValueInUSD ==
                IF pair.quote \in { USD, USDT } THEN JMul(units, calcIn.entryPrice)
                ELSE IF pair.base \in { USD, USDT } THEN units
                ELSE JMul(units, TableRate(pair.base))
            marginInUSD == JDiv(positionValueInUSD, LeverageRatio(calcIn.leverage))
        IN  calcOut.value =
                IF calcIn.accountCurrency = USD THEN marginInUSD
                ELSE JDiv(marginInUSD, TableRate(calcIn.accountCurrency))

\* the margin of a pair whose base and quote are both dollars, in rupees:
\* the quote decides, so the entry price is part of the position value
C23_Witness ==
    /\ ServiceReturned("calculateMarginRequired")
    /\ calcIn.pair.base = USD
    /\ calcIn.pair.quote = USDT
    /\ calcIn.entryPrice = R(156, 1)
    /\ calcIn.lotSize = R(1, 1)
    /\ calcIn.leverage = <<"1",":","1","0","0">>
    /\ calcIn.accountCurrency = <<"I","N","R">>
    /\ calcOut.value = R(13000000, 1)

\* C24: the pip value per standard lot is pipMultiplier * contractSize in the
\* quote currency, unchanged when the quote is the account currency and
\* otherwise multiplied by rate(quote) / rate(account currency); a currency
\* without a rate, the empty quote included, counts as rate 1.0 and the
\* result is still a number
C24_PipValue ==
    ServiceReturned("calculatePipValue") =>
        LET pair == calcIn.pair
            pipValueInQuoteCurrency ==
                JMul(getPairPipMultiplier(pair.symbol), pair.contractSize)
        IN  /\ IsNumber(calcOut.value)
            /\ calcOut.value =
                   IF pair.quote = calcIn.accountCurrency
                   THEN pipValueInQuoteCurrency
                   ELSE JMul(pipValueInQuoteCurrency,
                             JDiv(TableRate(pair.quote),
                                  TableRate(calcIn.accountCurrency)))

\* the pip value of an instrument without a quote currency, in rupees
C24_Witness ==
    /\ ServiceReturned("calculatePipValue")
    /\ calcIn.pair.quote = <<>>
    /\ JGt(calcIn.pair.contractSize, Zero)
    /\ calcIn.accountCurrency = <<"I","N","R">>
    /\ calcOut.value = JDiv(R(1, 1), R(12, 1000))

\* C22: for inputs that pass validation with a stop-loss distance that is not
\* zero, riskPerPip is finalLotSize * pipValuePerStandardLot and
\* effectiveRiskPercentage is finalLotSize * stopLossPips *
\* pipValuePerStandardLot / accountSize * 100, computed from the rounded lot
\* size (a NaN value being returned as 0)
C22_RiskFromRoundedLot ==
    (Returned /\ FullResult(calcIn)) =>
        LET pipValuePerStandardLot ==
                calculatePipValue(calcIn.currencyPair, calcIn.accountCurrency)
            actualRiskAmount ==
                JMul(JMul(calcOut.finalLotSize, calcOut.stopLossPips),
                     pipValuePerStandardLot)
        IN  /\ calcOut.riskPerPip =
                   NaNTo(JMul(calcOut.finalLotSize, pipValuePerStandardLot), Zero)
            /\ calcOut.effectiveRiskPercentage =
                   NaNTo(JMul(JDiv(actualRiskAmount, calcIn.accountSize),
                              R(100, 1)), Zero)

\* a risk of 1 % was asked for and the rounded lot size risks another
\* percentage
C22_Witness ==
    /\ Returned
    /\ FullResult(calcIn)
    /\ calcIn.riskType = "percentage"
    /\ JGt(calcOut.riskPerPip, Zero)
    /\ JGt(calcOut.effectiveRiskPercentage, Zero)
    /\ calcOut.effectiveRiskPercentage # calcIn.riskValue
    /\ calcOut.effectiveRiskPercentage =
           JMul(JDiv(calcOut.totalRiskAmount, calcIn.accountSize), R(100, 1))

\* C25: once the effects have settled, after start-up and after every later
\* change, localStorage holds the in-memory history; a start with a stored
\* non-empty history leaves that history in memory and in storage, so
\* storage holds an empty list only when the history is empty
C25_StorageFollowsHistory ==
    Settled =>
        /\ storage = StoredList(history)
        /\ (evt.kind = "mount" /\ evt.arg.t = "json") =>
               history = evt.arg.v /\ storage = evt.arg

\* the application started on a full stored history and has settled
C25_Witness ==
    /\ Settled
    /\ evt.kind = "mount"
    /\ evt.arg = StoredList(StoredHistory)
    /\ Len(history) = HistoryCap
    /\ storage = StoredList(history)

\* C26: a stored history that does not parse is discarded as a whole at
\* start-up: the stored text is gone, the history in memory is empty although
\* entries could be read in the text, and the application stands where a
\* first start stands
C26_CorruptHistoryDiscarded ==
    (mounted /\ evt.kind = "mount" /\ evt.arg.t = "corrupt") =>
        /\ history = <<>>
        /\ storage = StoredList(<<>>)
        /\ results = Null
        /\ calcError = "null"
        /\ hasCalculated = FALSE

\* the application started on an unparseable text with a readable entry in
\* it and has settled
C26_Witness ==
    /\ Settled
    /\ evt.kind = "mount"
    /\ evt.arg.t = "corrupt"
    /\ evt.arg.v # <<>>
    /\ history = <<>>
    /\ storage = StoredList(<<>>)

SLSide(s) ==
    <<s.stopLossPriceInput, s.stopLossPipsInput,
      s.effectiveStopLossPriceForCalc, s.lastEditedSLField>>

TPSide(s) ==
    <<s.takeProfitPriceInput, s.takeProfitPipsInput,
      s.effectiveTakeProfitPriceForCalc, s.lastEditedTPField>>

\* C28: with an entry price > 0, once the effects have settled after an edit
\* of a stop-loss field the four take-profit values are what they were
\* before the edit, and after an edit of a take-profit field the four
\* stop-loss values are what they were
C28_SidesIndependent ==
    (Settled /\ Positive(pre.entryPrice)) =>
        /\ evt.kind \in {"slPrice", "slPips"} => TPSide(S) = TPSide(pre)
        /\ evt.kind \in {"tpPrice", "tpPips"} => SLSide(S) = SLSide(pre)

\* a stop-loss price was typed while the take-profit was anchored on pips:
\* the stop-loss side changed, the take-profit side did not
C28_Witness ==
    /\ Settled
    /\ Positive(pre.entryPrice)
    /\ evt.kind = "slPrice"
    /\ pre.lastEditedTPField = "pips"
    /\ IsNumber(pre.effectiveTakeProfitPriceForCalc)
    /\ TPSide(S) = TPSide(pre)
    /\ SLSide(S) # SLSide(pre)
    /\ lastEditedSLField = "price"

\* a side in the state Uninitialized with nothing displayed
SideEmpty(side) == side = <<Empty, Empty, Empty, "null">>

\* C29: in every settled state, an entry price that is empty or not > 0, or
\* an empty instrument symbol, means that stop-loss and take-profit are both
\* Uninitialized with price, pips and effective price empty; and a side
\* without anchor has its three values empty, so an effective price that is
\* not empty has an anchor and an entry price > 0 behind it
C29_UnusableEntryClearsSides ==
    Settled =>
        /\ (\/ ~Positive(entryPrice)
            \/ currencyPair.symbol = <<>>
            \/ currencyPairInputSymbol = <<>>) =>
               SideEmpty(SLSide(S)) /\ SideEmpty(TPSide(S))
        /\ lastEditedSLField = "null" => SideEmpty(SLSide(S))
        /\ lastEditedTPField = "null" => SideEmpty(TPSide(S))
        /\ effectiveStopLossPriceForCalc # Empty =>
               lastEditedSLField # "null" /\ Positive(entryPrice)
        /\ effectiveTakeProfitPriceForCalc # Empty =>
               lastEditedTPField # "null" /\ Positive(entryPrice)

\* the entry price was set to 0 while both sides were anchored with
\* effective prices: the settled state has both sides empty
C29_Witness ==
    /\ Settled
    /\ evt.kind = "entryPrice"
    /\ entryPrice = Zero
    /\ IsNumber(pre.effectiveStopLossPriceForCalc)
    /\ IsNumber(pre.effectiveTakeProfitPriceForCalc)
    /\ SideEmpty(SLSide(S))
    /\ SideEmpty(TPSide(S))

\* the stop-loss distance of the form s in pips
StopLossDistance(s) ==
    getPipsFromPrices(s.entryPrice, s.effectiveStopLossPriceForCalc,
                      s.currencyPair)

\* C21: a Calculate with every required input present and positive whose
\* stop-loss is 0 pips or less than half a pip from the entry is refused with
\* the too-close error (results null, nothing added to the history), and a
\* Calculate with a missing or non-positive input gets the other error
C21_TooCloseRejected ==
    evt.kind = "calculate" =>
        /\ RequiredMissing(pre) => calcError = "required"
        /\ (/\ ~RequiredMissing(pre)
            /\ IsNumber(StopLossDistance(pre))
            /\ JLt(StopLossDistance(pre), R(1, 2))) =>
               /\ calcError = "tooClose"
               /\ results = Null
               /\ history = pre.history

\* the history entry handed to the last handleLoadHistoryEntry
LoadedEntry == pre.history[evt.arg]

\* the form shows the inputs of a history entry: instrument, entry price,
\* both sides' displayed price and pips and both anchors are the stored
\* ones, and each effective price is the one its anchor gives
FormShows(inputs) ==
    /\ currencyPairInputSymbol = inputs.currencyPair.symbol
    /\ currencyPair.symbol = inputs.currencyPair.symbol
    /\ tradeType = inputs.tradeType
    /\ entryPrice = inputs.entryPrice
    /\ stopLossPriceInput = inputs.stopLossPriceInput
    /\ stopLossPipsInput = inputs.stopLossPipsInput
    /\ lastEditedSLField = inputs.lastEditedSLField
    /\ takeProfitPriceInput = inputs.takeProfitPriceInput
    /\ takeProfitPipsInput = inputs.takeProfitPipsInput
    /\ lastEditedTPField = inputs.lastEditedTPField
    /\ effectiveStopLossPriceForCalc =
           (IF inputs.lastEditedSLField = "null"
            THEN Empty ELSE inputs.stopLossPriceInput)
    /\ effectiveTakeProfitPriceForCalc =
           (IF inputs.lastEditedTPField = "null"
            THEN Empty ELSE inputs.takeProfitPriceInput)
    /\ (ResyncEffect(S) @@ S) = S

\* C30: once the effects that follow the loading of a history entry have
\* settled, the form shows that entry (instrument, entry price, displayed
\* price and pips and anchor of both sides, effective prices derived from
\* the anchors) and the history list is the one it was before the load
C30_LoadRestoresForm ==
    (Settled /\ evt.kind = "load") =>
        /\ FormShows(LoadedEntry.inputs)
        /\ history = pre.history

\* the same, for an entry of the instrument the form is on
C30_SameInstrumentRestored ==
    (/\ Settled
     /\ evt.kind = "load"
     /\ LoadedEntry.inputs.currencyPair.symbol = pre.currencyPairInputSymbol) =>
        /\ FormShows(LoadedEntry.inputs)
        /\ history = pre.history

\* an entry of the instrument on the form was loaded over a changed form
C30_SameInstrumentWitness ==
    /\ Settled
    /\ evt.kind = "load"
    /\ LoadedEntry.inputs.currencyPair.symbol = pre.currencyPairInputSymbol
    /\ pre.stopLossPriceInput # LoadedEntry.inputs.stopLossPriceInput
    /\ FormShows(LoadedEntry.inputs)

\* an entry of another instrument was loaded: what the form is left with
C30_OtherInstrumentCleared ==
    (/\ Settled
     /\ evt.kind = "load"
     /\ LoadedEntry.inputs.currencyPair.symbol # pre.currencyPairInputSymbol) =>
        /\ currencyPairInputSymbol = LoadedEntry.inputs.currencyPair.symbol
        /\ currencyPair.symbol = LoadedEntry.inputs.currencyPair.symbol
        /\ entryPrice = Empty
        /\ SideEmpty(SLSide(S))
        /\ SideEmpty(TPSide(S))
        /\ results = LoadedEntry.results
        /\ history = pre.history

====
